---------------------------- MODULE Spec2Model ----------------------------
(***************************************************************************)
(* Model of eqtools/eqdskreader.py: class EqdskReader.                     *)
(*                                                                         *)
(* A g-file is a sequence of lines, a line a sequence of one-character     *)
(* strings.  EqdskReader.__init__ is modelled section by section (one      *)
(* action per section of the constructor, in the order of the code), the   *)
(* accessors one action per method.                                        *)
(*                                                                         *)
(* Numbers: a float is modelled as an integer count of 1/Scale units       *)
(* (fixed point); the inputs are chosen so that every division the code    *)
(* performs on them is exact.                                              *)
(***************************************************************************)
EXTENDS Integers, Sequences, FiniteSets, TLC

(***************************************************************************)
(* Bounds of the model.                                                    *)
(***************************************************************************)
\* largest grid width nw written in a header
MaxNw == 3
\* largest grid height nh written in a header
MaxNh == 2
\* largest nbbbs / limitr written on the count line
MaxPts == 2
\* largest a-file among those AFileReader may find
MaxAFiles == 2

\* fixed-point unit: the integer v stands for the float v / Scale
Scale == 10 * 10 * 10

(***************************************************************************)
(* Characters and Python's text primitives.                                *)
(***************************************************************************)
Digits == {"0", "1", "2", "3", "4", "5", "6", "7", "8", "9"}

DigitVal(c) ==
  CASE c = "0" -> 0 [] c = "1" -> 1 [] c = "2" -> 2 [] c = "3" -> 3
    [] c = "4" -> 4 [] c = "5" -> 5 [] c = "6" -> 6 [] c = "7" -> 7
    [] c = "8" -> 8 [] c = "9" -> 9

DigitChar(d) ==
  CASE d = 0 -> "0" [] d = 1 -> "1" [] d = 2 -> "2" [] d = 3 -> "3"
    [] d = 4 -> "4" [] d = 5 -> "5" [] d = 6 -> "6" [] d = 7 -> "7"
    [] d = 8 -> "8" [] d = 9 -> "9"

RECURSIVE Pow10(_)
Pow10(n) == IF n <= 0 THEN 1 ELSE 10 * Pow10(n - 1)

\* division rounding toward zero, as a float shortened to the fixed point
DivT(a, b) == IF a >= 0 THEN a \div b ELSE -((-a) \div b)

\* the value of a run of digits
RECURSIVE DigitsVal(_)
DigitsVal(s) ==
  IF s = <<>> THEN 0
  ELSE 10 * DigitsVal(SubSeq(s, 1, Len(s) - 1)) + DigitVal(s[Len(s)])

AllDigits(s) == \A i \in 1..Len(s) : s[i] \in Digits

\* index of the first position >= i of s that holds no digit (Len(s)+1 if none)
RECURSIVE SkipDigits(_, _)
SkipDigits(s, i) ==
  IF i > Len(s) \/ s[i] \notin Digits THEN i ELSE SkipDigits(s, i + 1)

\* index of the first position >= i of s holding a character of set cs (0 if none)
RECURSIVE FindChar(_, _, _)
FindChar(s, i, cs) ==
  IF i > Len(s) THEN 0
  ELSE IF s[i] \in cs THEN i ELSE FindChar(s, i + 1, cs)

\* str.split(): the maximal runs of non-blank characters, in order
RECURSIVE SplitFrom(_, _)
SplitFrom(s, i) ==
  IF i > Len(s) THEN <<>>
  ELSE IF s[i] = " " THEN SplitFrom(s, i + 1)
  ELSE LET e == FindChar(s, i, {" "})
           stop == IF e = 0 THEN Len(s) + 1 ELSE e
       IN  <<SubSeq(s, i, stop - 1)>> \o SplitFrom(s, stop)

Split(s) == SplitFrom(s, 1)

\* int(word): an optional sign and at least one digit, nothing else
IntOk(w) ==
  LET body == IF w # <<>> /\ w[1] \in {"-", "+"} THEN Tail(w) ELSE w
  IN  body # <<>> /\ AllDigits(body)

IntOf(w) ==
  IF w[1] = "-" THEN -DigitsVal(Tail(w))
  ELSE IF w[1] = "+" THEN DigitsVal(Tail(w))
  ELSE DigitsVal(w)


(***************************************************************************)
(* re.findall with the numeric pattern.                                    *)
(* Mandatory sections use  -?\d\.\d*E[-+]\d*  (a literal point); the       *)
(* optional tail uses  -?\d.\d*E[-+]\d*  (the point unescaped: any         *)
(* character).  anyDot selects the second.                                 *)
(***************************************************************************)
\* index one past the match that starts at i, 0 when the pattern does not
\* match at i
MatchAt(s, i, anyDot) ==
  LET d == IF s[i] = "-" THEN i + 1 ELSE i
  IN  IF d + 1 > Len(s) THEN 0
      ELSE IF s[d] \notin Digits THEN 0
      ELSE IF ~anyDot /\ s[d + 1] # "." THEN 0
      ELSE LET k == SkipDigits(s, d + 2)
           IN  IF k + 1 > Len(s) THEN 0
               ELSE IF s[k] # "E" THEN 0
               ELSE IF s[k + 1] \notin {"-", "+"} THEN 0
               ELSE SkipDigits(s, k + 2)

\* the non-overlapping matches, leftmost first
RECURSIVE FindAllFrom(_, _, _)
FindAllFrom(s, i, anyDot) ==
  IF i > Len(s) THEN <<>>
  ELSE LET e == MatchAt(s, i, anyDot)
       IN  IF e = 0 THEN FindAllFrom(s, i + 1, anyDot)
           ELSE <<SubSeq(s, i, e - 1)>> \o FindAllFrom(s, e, anyDot)

FindAll(s, anyDot) == FindAllFrom(s, 1, anyDot)

(***************************************************************************)
(* float(token) for the tokens the patterns can return:                    *)
(* [-] mantissa E [sign] digits.  float() raises ValueError when the       *)
(* mantissa is not digits with at most one point, or the exponent has no   *)
(* digit.                                                                  *)
(***************************************************************************)
FloatOk(t) ==
  LET body == IF t # <<>> /\ t[1] = "-" THEN Tail(t) ELSE t
      e == FindChar(body, 1, {"E"})
  IN  /\ e > 1
      /\ LET mant == SubSeq(body, 1, e - 1)
             rest == SubSeq(body, e + 1, Len(body))
             ex == IF rest # <<>> /\ rest[1] \in {"-", "+"} THEN Tail(rest) ELSE rest
         IN  /\ \A i \in 1..Len(mant) : mant[i] \in Digits \cup {"."}
             /\ Cardinality({i \in 1..Len(mant) : mant[i] = "."}) <= 1
             /\ \E i \in 1..Len(mant) : mant[i] \in Digits
             /\ ex # <<>> /\ AllDigits(ex)

\* the position of the decimal point in a mantissa (0 if it has none)
PointAt(mant) == FindChar(mant, 1, {"."})

\* the number of digits after the point
FracLen(mant) == IF PointAt(mant) = 0 THEN 0 ELSE Len(mant) - PointAt(mant)

\* the digits of the mantissa, the point left out
MantDigits(mant) ==
  IF PointAt(mant) = 0 THEN mant
  ELSE SubSeq(mant, 1, PointAt(mant) - 1) \o SubSeq(mant, PointAt(mant) + 1, Len(mant))

\* m * 10^sh, in units of 1/Scale
Shifted(m, sh) ==
  IF sh >= 0 THEN m * Pow10(sh) * Scale ELSE (m * Scale) \div Pow10(-sh)

\* the value of mantissa E exponent
FloatMag(mant, ex) == Shifted(DigitsVal(MantDigits(mant)), IntOf(ex) - FracLen(mant))

\* the position of the E of an unsigned token
ExpAt(body) == FindChar(body, 1, {"E"})

FloatAbs(body) ==
  FloatMag(SubSeq(body, 1, ExpAt(body) - 1), SubSeq(body, ExpAt(body) + 1, Len(body)))

FloatOf(t) == IF t[1] = "-" THEN -FloatAbs(Tail(t)) ELSE FloatAbs(t)

(***************************************************************************)
(* csv.reader over the file: next(reader) is the list of the line's        *)
(* comma-separated fields, the empty list for an empty line; the code      *)
(* takes element [0].                                                      *)
(***************************************************************************)
\* whether next(reader)[0] raises IndexError on this line
RowEmpty(line) == line = <<>>

\* next(reader)[0]: the text before the first comma
Row0(line) ==
  LET c == FindChar(line, 1, {","})
  IN  IF c = 0 THEN line ELSE SubSeq(line, 1, c - 1)

(***************************************************************************)
(* Arrays.  A 1-D array is a sequence; an (n,1) array a sequence of        *)
(* one-element rows; the flux map a 1 x nh x nw nested sequence.           *)
(***************************************************************************)
\* reshape((n,1)) of a flat list
Column(data) == [i \in 1..Len(data) |-> <<data[i]>>]
\* ReshapeC with the first of the two grid indices varying fastest
ReshapeCByColumns(data, nh, nw) ==
  << [z \in 1..nh |-> [r \in 1..nw |-> data[(r - 1) * nh + z]]] >>

\* reshape((1,nh,nw), order='C'): the last index varies fastest
ReshapeC(data, nh, nw) ==
  << [z \in 1..nh |-> [r \in 1..nw |-> data[(z - 1) * nw + r]]] >>
\* ReshapeF with the first half of the values as row 1, the second as row 2
ReshapeFBlocks(data, n) ==
  [i \in 1..2 |-> [j \in 1..n |-> data[(i - 1) * n + j]]]

\* reshape((2,n), order='F'): the first index varies fastest
ReshapeF(data, n) ==
  [i \in 1..2 |-> [j \in 1..n |-> data[2 * (j - 1) + i]]]

\* scipy.atleast_2d(scipy.array([0])): the value the optional fields default to
Sentinel == << <<0>> >>

\* scipy.mean of a 1-D array (used on one-element arrays)
RECURSIVE Sum(_)
Sum(a) == IF a = <<>> THEN 0 ELSE a[1] + Sum(Tail(a))

Mean(a) == DivT(Sum(a), Len(a))

\* scipy.linspace(start, stop, num): num samples, the last one set to stop
Linspace(start, stop, num) ==
  IF num <= 0 THEN <<>>
  ELSE IF num = 1 THEN <<start>>
  ELSE [i \in 1..num |->
          IF i = num THEN stop
          ELSE start + DivT((i - 1) * (stop - start), num - 1)]

(***************************************************************************)
(* The state.                                                              *)
(***************************************************************************)
VARIABLES
  gen,       \* the description the g-file was written from (see GFile)
  file,      \* the g-file open in __init__: a sequence of lines
  pos,       \* csv reader position: index of the next line of file
  pc,        \* the constructor's position, then "ready" or "failed"
  err,       \* the exception that left __init__ ("none" if none did)
  stage,     \* the step of __init__ that raised it ("" if none did)
  loc,       \* locals of __init__: nw, nh, the grid scalars, nbbbs, limitr
  self,      \* the attributes of the EqdskReader object
  tailErr,   \* the exception the optional tail's bare except caught
  call,      \* the last accessor called and how it ended
  ret,       \* the value the last accessor returned
  held,      \* the attribute whose stored array the caller holds ("" if none)
  args,      \* the arguments of __init__ and what glob finds (<<>> once used)
  names,     \* self._gfilename and self._afilename while __init__ runs
  lastRead   \* history: the a-file of the last readAFile that succeeded (0: none)

vars ==
  <<gen, file, pos, pc, err, stage, loc, self, tailErr, call, ret, held, args,
    names, lastRead>>

\* an attribute not assigned yet, and Python's None
Unset == <<>>
None == <<>>

\* values per line of a numeric section (written inline as 5 in the code)
PerLine == 5

\* rows a section of n values takes: n/5, plus one if n % 5 != 0
NRows(n) == (n \div PerLine) + (IF n % PerLine # 0 THEN 1 ELSE 0)

\* line = next(reader)[0]
ReadLine(f, p) ==
  IF p > Len(f) THEN [err |-> "StopIteration", pos |-> p, text |-> <<>>]
  ELSE IF RowEmpty(f[p]) THEN [err |-> "IndexError", pos |-> p + 1, text |-> <<>>]
  ELSE [err |-> "none", pos |-> p + 1, text |-> Row0(f[p])]

\* for val in line: append(float(val)), for the tokens of one line
AllFloats(toks, p) ==
  IF \E i \in 1..Len(toks) : ~FloatOk(toks[i])
  THEN [err |-> "ValueError", pos |-> p, vals |-> <<>>]
  ELSE [err |-> "none", pos |-> p, vals |-> [i \in 1..Len(toks) |-> FloatOf(toks[i])]]
\* LineRow raising when the pattern finds no value on the line
LineRowNonEmpty(l, anyDot) ==
  IF l.err # "none" THEN [err |-> l.err, pos |-> l.pos, vals |-> <<>>]
  ELSE IF FindAll(l.text, anyDot) = <<>>
    THEN [err |-> "ValueError", pos |-> l.pos, vals |-> <<>>]
  ELSE AllFloats(FindAll(l.text, anyDot), l.pos)

\* line = re.findall(pattern, line), for the line that was read
LineRow(l, anyDot) ==
  IF l.err # "none" THEN [err |-> l.err, pos |-> l.pos, vals |-> <<>>]
  ELSE AllFloats(FindAll(l.text, anyDot), l.pos)

\* one pass of the row loop: line = next(reader)[0]; findall; append float(val)
ReadRow(f, p, anyDot) == LineRow(ReadLine(f, p), anyDot)

\* the values read so far in front of what the remaining rows gave
Prepend(vals, rest) == [err |-> rest.err, pos |-> rest.pos, vals |-> vals \o rest.vals]

\* the row loop after row r: an exception ends it
RECURSIVE ReadRows(_, _, _, _)
RowsAfter(r, f, more, anyDot) ==
  IF r.err # "none" THEN r
  ELSE Prepend(r.vals, ReadRows(f, r.pos, more, anyDot))

\* for i in range(nrows): the row loop
ReadRows(f, p, nrows, anyDot) ==
  IF nrows <= 0 THEN [err |-> "none", pos |-> p, vals |-> <<>>]
  ELSE RowsAfter(ReadRow(f, p, anyDot), f, nrows - 1, anyDot)
\* AsColumn keeping the first n values of a longer list
AsColumnTruncating(r, n) ==
  IF r.err # "none" THEN [err |-> r.err, pos |-> r.pos, arr |-> Unset]
  ELSE IF Len(r.vals) < n THEN [err |-> "ValueError", pos |-> r.pos, arr |-> Unset]
  ELSE [err |-> "none", pos |-> r.pos, arr |-> Column(SubSeq(r.vals, 1, n))]

\* reshape((n,1)): ValueError unless the rows read carry exactly n values
AsColumn(r, n) ==
  IF r.err # "none" THEN [err |-> r.err, pos |-> r.pos, arr |-> Unset]
  ELSE IF Len(r.vals) # n THEN [err |-> "ValueError", pos |-> r.pos, arr |-> Unset]
  ELSE [err |-> "none", pos |-> r.pos, arr |-> Column(r.vals)]

\* a section of n values reshaped to (n,1)
ReadColumn(f, p, n, anyDot) == AsColumn(ReadRows(f, p, NRows(n), anyDot), n)

\* float(line[i]) for the 1-based indices idx, in order: the first exception
RECURSIVE FloatErr(_, _)
FloatErr(toks, idx) ==
  IF idx = <<>> THEN "none"
  ELSE IF idx[1] > Len(toks) THEN "IndexError"
  ELSE IF ~FloatOk(toks[idx[1]]) THEN "ValueError"
  ELSE FloatErr(toks, Tail(idx))

\* int(line[i]) for the 1-based indices idx, in order: the first exception
RECURSIVE IntErr(_, _)
IntErr(words, idx) ==
  IF idx = <<>> THEN "none"
  ELSE IF idx[1] > Len(words) \/ idx[1] < 1 THEN "IndexError"
  ELSE IF ~IntOk(words[idx[1]]) THEN "ValueError"
  ELSE IntErr(words, Tail(idx))

(***************************************************************************)
(* __init__, reading the g-file (lines 157-409).  Each step returns        *)
(* [err, pos, self, loc]: the exception raised ("none" if none), the       *)
(* reader position, and the attributes and locals after the step.          *)
(***************************************************************************)
StepFail(e, p, sf, lc) == [err |-> e, pos |-> p, self |-> sf, loc |-> lc]

\* re.split('\D', w)[-1]: what follows the last non-digit character
RECURSIVE LastDigitRun(_)
LastDigitRun(w) ==
  IF w = <<>> \/ w[Len(w)] \notin Digits THEN <<>>
  ELSE LastDigitRun(SubSeq(w, 1, Len(w) - 1)) \o <<w[Len(w)]>>

\* first index >= i at which sub occurs in s (0 if none)
RECURSIVE FindSub(_, _, _)
FindSub(s, sub, i) ==
  IF i + Len(sub) - 1 > Len(s) THEN 0
  ELSE IF SubSeq(s, i, i + Len(sub) - 1) = sub THEN i
  ELSE FindSub(s, sub, i + 1)

\* re.findall('\d+', w)[0]: the first run of digits (<<>> if w has no digit)
FirstDigitRun(w) ==
  LET i == FindChar(w, 1, Digits)
  IN  IF i = 0 THEN <<>> ELSE SubSeq(w, i, SkipDigits(w, i) - 1)

\* w.split(sep)[1]: the text between the first and the second occurrence of
\* sep (sep occurs in w)
SplitSecond(w, sep) ==
  LET a == FindSub(w, sep, 1) + Len(sep)
      b == FindSub(w, sep, a)
  IN  SubSeq(w, a, IF b = 0 THEN Len(w) ELSE b - 1)

\* timeConvertDict = {'ms':1./1000.,'s':1.}, applied to float(time)
TimeUnits == { <<"m", "s">>, <<"s">> }
\* TimeValue with milliseconds kept as they are written
TimeValueAsWritten(digits, units) == DigitsVal(digits) * Scale

TimeValue(digits, units) ==
  IF units = <<"m", "s">> THEN DivT(DigitsVal(digits) * Scale, 1000)
  ELSE DigitsVal(digits) * Scale
\* HeaderStep with the fields taken at their places in a header of seven words
HeaderStepSevenWords(f, p, sf, lc) ==
  LET l == ReadLine(f, p)
      line == Split(l.text)
      n == 7
  IN  IF l.err # "none" THEN StepFail(l.err, l.pos, sf, lc)
      ELSE IF Len(line) < n THEN StepFail("IndexError", l.pos, sf, lc)
      ELSE LET shotw == LastDigitRun(line[n - 4])
               timestring == line[n - 3]
               time == FirstDigitRun(timestring)
           IN  IF shotw = <<>> THEN StepFail("ValueError", l.pos, sf, lc)
               ELSE IF IntErr(line, <<n - 1, n>>) # "none"
                 THEN StepFail(IntErr(line, <<n - 1, n>>), l.pos, sf, lc)
               ELSE IF time = <<>> THEN StepFail("IndexError", l.pos, sf, lc)
               ELSE LET tunits == SplitSecond(timestring, time)
                    IN  IF tunits \notin TimeUnits
                        THEN StepFail("KeyError", l.pos, sf, lc)
                        ELSE [err |-> "none", pos |-> l.pos,
                              self |-> [sf EXCEPT !.date = line[2],
                                                  !.shot = DigitsVal(shotw),
                                                  !.tunits = tunits,
                                                  !.time = <<TimeValue(time, tunits)>>],
                              loc |-> [lc EXCEPT !.nw = IntOf(line[n - 1]),
                                                 !.nh = IntOf(line[n])]]

\* the header line: date, shot, time string, nw, nh (lines 162-174)
HeaderStep(f, p, sf, lc) ==
  LET l == ReadLine(f, p)
      line == Split(l.text)
      n == Len(line)
  IN  IF l.err # "none" THEN StepFail(l.err, l.pos, sf, lc)
      ELSE IF n < 5 THEN StepFail("IndexError", l.pos, sf, lc)
      ELSE LET shotw == LastDigitRun(line[n - 4])
               timestring == line[n - 3]
               time == FirstDigitRun(timestring)
           IN  IF shotw = <<>> THEN StepFail("ValueError", l.pos, sf, lc)
               ELSE IF IntErr(line, <<n - 1, n>>) # "none"
                 THEN StepFail(IntErr(line, <<n - 1, n>>), l.pos, sf, lc)
               ELSE IF time = <<>> THEN StepFail("IndexError", l.pos, sf, lc)
               ELSE LET tunits == SplitSecond(timestring, time)
                    IN  IF tunits \notin TimeUnits
                        THEN StepFail("KeyError", l.pos, sf, lc)
                        ELSE [err |-> "none", pos |-> l.pos,
                              self |-> [sf EXCEPT !.date = line[2],
                                                  !.shot = DigitsVal(shotw),
                                                  !.tunits = tunits,
                                                  !.time = <<TimeValue(time, tunits)>>],
                              loc |-> [lc EXCEPT !.nw = IntOf(line[n - 1]),
                                                 !.nh = IntOf(line[n])]]

\* RGridOf ending at the width instead of origin + width
RGridOfToWidth(xdim, rgrid0, nw) == Linspace(rgrid0, xdim, nw)

\* self._rGrid = scipy.linspace(rgrid0,rgrid0 + xdim,nw)
RGridOf(xdim, rgrid0, nw) == Linspace(rgrid0, rgrid0 + xdim, nw)

\* ZGridOf with one sample too many
ZGridOfExtraSample(zdim, zmid, nh) ==
  Linspace(zmid - DivT(zdim, 2), zmid + DivT(zdim, 2), nh + 1)

\* self._zGrid = scipy.linspace(zmid - zdim/2.0,zmid + zdim/2.0,nh)
ZGridOf(zdim, zmid, nh) == Linspace(zmid - DivT(zdim, 2), zmid + DivT(zdim, 2), nh)

\* float(line[i]) for the 1-based indices idx of the tokens of a line
TokFloats(toks, idx, p) ==
  IF FloatErr(toks, idx) # "none"
  THEN [err |-> FloatErr(toks, idx), pos |-> p, vals |-> <<>>]
  ELSE [err |-> "none", pos |-> p,
        vals |-> [i \in 1..Len(idx) |-> FloatOf(toks[idx[i]])]]

LineFloats(l, idx) ==
  IF l.err # "none" THEN [err |-> l.err, pos |-> l.pos, vals |-> <<>>]
  ELSE TokFloats(FindAll(l.text, FALSE), idx, l.pos)

\* line = next(reader)[0]; line = re.findall(pattern, line); float(line[i])
ReadFloats(f, p, idx) == LineFloats(ReadLine(f, p), idx)

\* the grid, from xdim, zdim, rgrid0, zmid (lines 179-191)
GridSet(r, sf, lc) ==
  IF r.err # "none" THEN StepFail(r.err, r.pos, sf, lc)
  ELSE [err |-> "none", pos |-> r.pos,
        loc |-> [lc EXCEPT !.xdim = r.vals[1], !.zdim = r.vals[2],
                           !.rgrid0 = r.vals[3], !.zmid = r.vals[4]],
        self |-> [sf EXCEPT !.rGrid = RGridOf(r.vals[1], r.vals[3], lc.nw),
                            !.zGrid = ZGridOf(r.vals[2], r.vals[4], lc.nh)]]

\* the grid-construction line (lines 177-191): values 0, 1, 3 and 4 are used
GridStep(f, p, sf, lc) == GridSet(ReadFloats(f, p, <<1, 2, 4, 5>>), sf, lc)

AxisSet(r, sf, lc) ==
  IF r.err # "none" THEN StepFail(r.err, r.pos, sf, lc)
  ELSE [err |-> "none", pos |-> r.pos, loc |-> lc,
        self |-> [sf EXCEPT !.rmaxis = <<r.vals[1]>>, !.zmaxis = <<r.vals[2]>>,
                            !.psiAxis = <<r.vals[3]>>, !.psiLCFS = <<r.vals[4]>>,
                            !.bzero = <<r.vals[5]>>]]

\* R, Z of the axis, psi at axis and LCFS, bzero (lines 194-202)
AxisStep(f, p, sf, lc) == AxisSet(ReadFloats(f, p, <<1, 2, 3, 4, 5>>), sf, lc)

IpSet(r, sf, lc) ==
  IF r.err # "none" THEN StepFail(r.err, r.pos, sf, lc)
  ELSE [err |-> "none", pos |-> r.pos, loc |-> lc,
        self |-> [sf EXCEPT !.IpCalc = <<r.vals[1]>>]]

\* the EFIT-calculated plasma current: first value of the line (lines 206-209)
IpStep(f, p, sf, lc) == IpSet(ReadFloats(f, p, <<1>>), sf, lc)
\* SkipStep with a second line read and not used
SkipStepTwoLines(f, p, sf, lc) ==
  [err |-> ReadLine(f, ReadLine(f, p).pos).err, pos |-> ReadLine(f, ReadLine(f, p).pos).pos,
   self |-> sf, loc |-> lc]

\* a line read and not used (line 212)
SkipStep(f, p, sf, lc) ==
  LET l == ReadLine(f, p)
  IN  [err |-> l.err, pos |-> l.pos, self |-> sf, loc |-> lc]

StoreColumn(name, r, sf, lc) ==
  IF r.err # "none" THEN StepFail(r.err, r.pos, sf, lc)
  ELSE [err |-> "none", pos |-> r.pos, loc |-> lc, self |-> [sf EXCEPT ![name] = r.arr]]

\* a profile of nw values stored as attribute name (lines 215-254, 273-284)
ProfileStep(name, f, p, sf, lc) ==
  StoreColumn(name, ReadColumn(f, p, lc.nw, FALSE), sf, lc)

\* reshape((1,nh,nw)): ValueError unless exactly nw*nh values were read
PsiSet(r, sf, lc) ==
  IF r.err # "none" THEN StepFail(r.err, r.pos, sf, lc)
  ELSE IF Len(r.vals) # lc.nw * lc.nh THEN StepFail("ValueError", r.pos, sf, lc)
  ELSE [err |-> "none", pos |-> r.pos, loc |-> lc,
        self |-> [sf EXCEPT !.psiRZ = ReshapeC(r.vals, lc.nh, lc.nw)]]

\* the flux map: nw*nh values reshaped (1,nh,nw) in C order (lines 256-271)
PsiStep(f, p, sf, lc) == PsiSet(ReadRows(f, p, NRows(lc.nw * lc.nh), FALSE), sf, lc)

\* int(line[i]) for the 1-based indices idx of the words of a line
WordInts(words, idx, p) ==
  IF IntErr(words, idx) # "none"
  THEN [err |-> IntErr(words, idx), pos |-> p, vals |-> <<>>]
  ELSE [err |-> "none", pos |-> p,
        vals |-> [i \in 1..Len(idx) |-> IntOf(words[idx[i]])]]

LineInts(l, idx) ==
  IF l.err # "none" THEN [err |-> l.err, pos |-> l.pos, vals |-> <<>>]
  ELSE WordInts(Split(l.text), idx, l.pos)

\* line = next(reader)[0].split(); int(line[i])
ReadInts(f, p, idx) == LineInts(ReadLine(f, p), idx)

CountSet(r, sf, lc) ==
  IF r.err # "none" THEN StepFail(r.err, r.pos, sf, lc)
  ELSE [err |-> "none", pos |-> r.pos, self |-> sf,
        loc |-> [lc EXCEPT !.nbbbs = r.vals[1], !.limitr = r.vals[2]]]

\* nbbbs and limitr (lines 287-289)
CountStep(f, p, sf, lc) == CountSet(ReadInts(f, p, <<1, 2>>), sf, lc)

\* AsPairs keeping the first 2*n values of a longer list
AsPairsTruncating(r, n) ==
  IF r.err # "none" THEN [err |-> r.err, pos |-> r.pos, arr |-> Unset]
  ELSE IF n < 0 \/ Len(r.vals) < 2 * n
    THEN [err |-> "ValueError", pos |-> r.pos, arr |-> Unset]
  ELSE [err |-> "none", pos |-> r.pos, arr |-> ReshapeF(r.vals, n)]

\* reshape((2,n),order='F'): ValueError unless exactly 2*n values were read
AsPairs(r, n) ==
  IF r.err # "none" THEN [err |-> r.err, pos |-> r.pos, arr |-> Unset]
  ELSE IF n < 0 \/ Len(r.vals) # 2 * n
    THEN [err |-> "ValueError", pos |-> r.pos, arr |-> Unset]
  ELSE [err |-> "none", pos |-> r.pos, arr |-> ReshapeF(r.vals, n)]

\* 2*n values reshaped (2,n) in Fortran order: row 1 and row 2 (lines 293-303,
\* 311-321)
ReadPairs(f, p, n) == AsPairs(ReadRows(f, p, NRows(2 * n), FALSE), n)

BbbsSet(r, sf, lc) ==
  IF r.err # "none" THEN StepFail(r.err, r.pos, sf, lc)
  ELSE [err |-> "none", pos |-> r.pos, loc |-> lc,
        self |-> [sf EXCEPT !.RLCFS = Column(r.arr[1]), !.ZLCFS = Column(r.arr[2])]]

\* the LCFS polygon (lines 293-307)
BbbsStep(f, p, sf, lc) == BbbsSet(ReadPairs(f, p, lc.nbbbs), sf, lc)

LimSet(r, sf, lc) ==
  IF r.err # "none" THEN StepFail(r.err, r.pos, sf, lc)
  ELSE [err |-> "none", pos |-> r.pos, loc |-> lc,
        self |-> [sf EXCEPT !.xlim = r.arr[1], !.ylim = r.arr[2]]]

\* the limiter polygon (lines 311-323)
LimStep(f, p, sf, lc) == LimSet(ReadPairs(f, p, lc.limitr), sf, lc)

(***************************************************************************)
(* The optional tail (lines 328-403): a try block with a bare except.      *)
(* The block is a sequence of steps over a record t: the exception that    *)
(* ended the block ("none" while it runs), the reader position, the        *)
(* attributes assigned so far, and the flags kvtor, nmass and keecur.      *)
(***************************************************************************)
HeadSet(r, sf) ==
  [err |-> r.err, pos |-> r.pos, self |-> sf, keecur |-> 0,
   kvtor |-> IF r.err = "none" THEN r.vals[1] ELSE 0,
   nmass |-> IF r.err = "none" THEN r.vals[2] ELSE 0]

\* kvtor, rvtor, nmass: int(line[0]) and int(line[2]) (lines 330-333)
TailHead(f, p, sf) == HeadSet(ReadInts(f, p, <<1, 3>>), sf)

\* the attribute assigned from the section read, or the exception
TailStore(name, r, t) ==
  IF r.err # "none" THEN [t EXCEPT !.err = r.err, !.pos = r.pos]
  ELSE [t EXCEPT !.pos = r.pos, !.self[name] = r.arr]

\* a section read into attribute name when the flag is > 0; the attribute
\* is the sentinel otherwise
TailOptional(name, flag, t, f, nw) ==
  IF t.err # "none" THEN t
  ELSE IF t[flag] > 0 THEN TailStore(name, ReadColumn(f, t.pos, nw, TRUE), t)
  ELSE [t EXCEPT !.self[name] = Sentinel]

\* rhovn is read whatever the flags (lines 372-383)
TailRhovn(t, f, nw) ==
  IF t.err # "none" THEN t
  ELSE TailStore("rhovn", ReadColumn(f, t.pos, nw, TRUE), t)

\* KeecurLine reading the line through the csv reader, as the other lines are
KeecurLineFromReader(f, p) ==
  [err |-> ReadInts(f, p, <<1>>).err, pos |-> ReadInts(f, p, <<1>>).pos,
   keecur |-> IF ReadInts(f, p, <<1>>).err = "none"
              THEN ReadInts(f, p, <<1>>).vals[1] ELSE 0]

\* line = gfile.readline.split(); keecur = int(line[0]) (lines 386-387).
\* gfile.readline is the bound method, not a string: taking .split of it
\* raises AttributeError, and no line is read.
KeecurLine(f, p) == [err |-> "AttributeError", pos |-> p, keecur |-> 0]

KeecurSet(k, t) == [t EXCEPT !.err = k.err, !.pos = k.pos, !.keecur = k.keecur]

TailKeecur(t, f) == IF t.err # "none" THEN t ELSE KeecurSet(KeecurLine(f, t.pos), t)

\* the body of the try block: the attributes assigned before it ended, the
\* exception that ended it ("none" if it ran to its end) and the position
TailBody(f, p, sf, nw) ==
  TailOptional("workk", "keecur",
    TailKeecur(
      TailRhovn(
        TailOptional("dmion", "nmass",
          TailOptional("preswp", "kvtor",
            TailOptional("presw", "kvtor", TailHead(f, p, sf), f, nw),
            f, nw),
          f, nw),
        f, nw),
      f),
    f, nw)

\* TailExcept leaving the two rotational-pressure fields as they are
TailExceptKeepPressure(sf) ==
  [sf EXCEPT !.rhovn = Sentinel, !.dmion = Sentinel, !.workk = Sentinel]

\* the except clause (lines 398-403): all five fields become the sentinel
TailExcept(sf) ==
  [sf EXCEPT !.presw = Sentinel, !.preswp = Sentinel, !.rhovn = Sentinel,
             !.dmion = Sentinel, !.workk = Sentinel]

TailEnd(t, lc) ==
  [err |-> "none", pos |-> t.pos, loc |-> lc, caught |-> t.err,
   self |-> IF t.err # "none" THEN TailExcept(t.self) ELSE t.self]

\* the whole try/except: what it leaves in the object, where it leaves the
\* reader, and the exception it swallowed ("none" if none)
TailStep(f, p, sf, lc) == TailEnd(TailBody(f, p, sf, lc.nw), lc)

(***************************************************************************)
(* The footer (lines 405-409): r = ''; for row in reader: r = row[0];      *)
(* self._efittype = r.split()[-1].                                         *)
(***************************************************************************)
\* the first empty line at or after p (0 if none): row[0] raises there
RECURSIVE FirstEmptyRow(_, _)
FirstEmptyRow(f, p) ==
  IF p > Len(f) THEN 0
  ELSE IF RowEmpty(f[p]) THEN p ELSE FirstEmptyRow(f, p + 1)

FooterStep(f, p, sf, lc) ==
  LET bad == FirstEmptyRow(f, p)
      r == IF p > Len(f) THEN <<>> ELSE Row0(f[Len(f)])
      words == Split(r)
  IN  IF bad # 0 THEN StepFail("IndexError", bad + 1, sf, lc)
      ELSE IF words = <<>> THEN StepFail("IndexError", Len(f) + 1, sf, lc)
      ELSE [err |-> "none", pos |-> Len(f) + 1, loc |-> lc,
            self |-> [sf EXCEPT !.efittype = words[Len(words)]]]

(***************************************************************************)
(* After the g-file (lines 415-502), and readAFile (lines 535-602).        *)
(***************************************************************************)
\* the attributes readAFile assigns, in the order of its assignments, each
\* with the AFileReader attribute it is read from
AFields ==
  << <<"btaxp", "btaxp">>, <<"btaxv", "btaxv">>, <<"bpolav", "bpolav">>,
     <<"IpMeas", "pasmat">>,
     <<"q0", "qqmin">>, <<"q95", "qpsib">>, <<"qLCFS", "qout">>,
     <<"rq1", "aaq1">>, <<"rq2", "aaq2">>, <<"rq3", "aaq3">>,
     <<"kappa", "eout">>, <<"dupper", "doutu">>, <<"dlower", "doutl">>,
     <<"rmag", "rmagx">>, <<"zmag", "zmagx">>, <<"aLCFS", "aout">>,
     <<"areaLCFS", "areao">>, <<"RmidLCFS", "rmidout">>,
     <<"betat", "betat">>, <<"betap", "betap">>, <<"Li", "ali">>,
     <<"diamag", "diamag">>, <<"betatd", "betatd">>, <<"betapd", "betapd">>,
     <<"WDiamag", "wplasmd">>, <<"tauDiamag", "taudia">>,
     <<"WMHD", "wplasm">>, <<"tauMHD", "taumhd">>, <<"Pinj", "pbinj">>,
     <<"Wbdot", "wbdot">>, <<"Wpdot", "wpdot">>,
     <<"volLCFS", "vout">> >>

AFieldNames == {AFields[i][1] : i \in 1..Len(AFields)}

\* attributes that are None after construction and after every readAFile
NoneFields == {"Jp", "fluxVol", "RmidPsi"}

\* the attributes read from the g-file
GFieldNames ==
  {"date", "shot", "tunits", "time", "rGrid", "zGrid", "rmaxis", "zmaxis",
   "psiAxis", "psiLCFS", "bzero", "IpCalc", "fpol", "fluxPres", "ffprim",
   "pprime", "psiRZ", "qpsi", "RLCFS", "ZLCFS", "xlim", "ylim",
   "presw", "preswp", "dmion", "rhovn", "workk", "efittype"}

FieldNames == GFieldNames \cup AFieldNames \cup NoneFields \cup {"currentSign"}

\* the value AFileReader object a holds for attribute number i of AFields
AfrValue(a, i) == (a.base * 100 + i) * Scale

\* lines 415-493: everything not read from the g-file starts as None
PostInit(sf) ==
  [n \in FieldNames |-> IF n \in GFieldNames THEN sf[n] ELSE None]

\* readAFile(afile): AFileReader raises IOError when the file is not found;
\* otherwise each attribute becomes a one-element array
RECURSIVE AssignAFields(_, _, _)
AssignAFields(sf, a, i) ==
  IF i > Len(AFields) THEN sf
  ELSE AssignAFields([sf EXCEPT ![AFields[i][1]] = <<AfrValue(a, i)>>], a, i + 1)

\* ReadAFile with the first attribute assigned before the file is found missing
ReadAFilePartly(sf, a) ==
  IF a.kind = "absent" THEN [err |-> "IOError", self |-> [sf EXCEPT !.btaxp = <<0>>]]
  ELSE [err |-> "none",
        self |-> [AssignAFields(sf, a, 1) EXCEPT !.fluxVol = None, !.RmidPsi = None]]
\* ReadAFile leaving no current sign cached, as in a new object
ReadAFileFresh(sf, a) ==
  IF a.kind = "absent" THEN [err |-> "IOError", self |-> sf]
  ELSE [err |-> "none",
        self |-> [AssignAFields(sf, a, 1) EXCEPT !.fluxVol = None, !.RmidPsi = None,
                                                 !.currentSign = None]]

ReadAFile(sf, a) ==
  IF a.kind = "absent" THEN [err |-> "IOError", self |-> sf]
  ELSE [err |-> "none",
        self |-> [AssignAFields(sf, a, 1) EXCEPT !.fluxVol = None, !.RmidPsi = None]]

\* print('a-file data not loaded.')
NotLoaded == "a-file data not loaded."

\* PostStep with the IOError of readAFile left uncaught
PostStepUncaught(sf, a) ==
  LET s0 == PostInit(sf)
      r == ReadAFile(s0, a)
  IN  IF a.kind = "noname" THEN [err |-> "none", self |-> s0, out |-> NotLoaded]
      ELSE [err |-> r.err, self |-> r.self, out |-> ""]

\* lines 496-502: the a-file is read when a name was found for it; IOError is
\* caught and reported, any other exception leaves __init__
PostStep(sf, a) ==
  LET s0 == PostInit(sf)
      r == ReadAFile(s0, a)
  IN  IF a.kind = "noname" THEN [err |-> "none", self |-> s0, out |-> NotLoaded]
      ELSE IF r.err = "IOError" THEN [err |-> "none", self |-> s0, out |-> NotLoaded]
      ELSE [err |-> r.err, self |-> r.self, out |-> ""]

(***************************************************************************)
(* The g-files the model reads.  A file is written from a description g,   *)
(* the way EFIT writes it: values in fixed-width fields, five to a line,   *)
(* a blank or a minus sign in front of each, so that values abut.          *)
(***************************************************************************)
RECURSIVE Concat(_)
Concat(ss) == IF ss = <<>> THEN <<>> ELSE ss[1] \o Concat(Tail(ss))

\* the decimal digits of n >= 0
RECURSIVE NumStr(_)
NumStr(n) ==
  IF n < 10 THEN <<DigitChar(n)>> ELSE NumStr(n \div 10) \o <<DigitChar(n % 10)>>

\* the field  d.fE<es>e  with its sign column
MkTok(neg, d, f, es, e) ==
  <<IF neg THEN "-" ELSE " ", DigitChar(d), ".", DigitChar(f), "E", es, DigitChar(e)>>

\* value number k (from 0) of section s: s.k, negative for odd k
SecTok(s, k) == MkTok(k % 2 = 1, s, k % 10, "+", k \div 10)

SecToks(s, n) == [k \in 1..n |-> SecTok(s, k - 1)]

\* tokens written five to a line
RECURSIVE Pack(_)
Pack(toks) ==
  IF toks = <<>> THEN <<>>
  ELSE LET m == IF Len(toks) < PerLine THEN Len(toks) ELSE PerLine
       IN  <<Concat(SubSeq(toks, 1, m))>> \o Pack(SubSeq(toks, m + 1, Len(toks)))

\* a section of n values; how = "extra": one value too many on its last
\* line; "short": the last value missing; "blank": its last line holds no
\* value; "crowded": the values of its last line written at the end of the
\* line before, the last line left blank
Section(s, n, how) ==
  LET good == Pack(SecToks(s, n))
      k == Len(good)
      lastToks == SubSeq(SecToks(s, n), (k - 1) * PerLine + 1, n)
      newLast == IF how = "extra" THEN Concat(lastToks) \o SecTok(s, n)
                 ELSE IF how = "short" /\ Len(lastToks) > 1
                   THEN Concat(SubSeq(lastToks, 1, Len(lastToks) - 1))
                 ELSE <<" ">>
  IN  IF how = "good" \/ k = 0 THEN good
      ELSE IF how = "crowded"
        THEN IF k < 2 THEN good
             ELSE SubSeq(good, 1, k - 2) \o <<good[k - 1] \o good[k], <<" ">> >>
      ELSE SubSeq(good, 1, k - 1) \o <<newLast>>

How(g, sec) == IF g.defect[1] = sec THEN g.defect[2] ELSE "good"

Words(ws) == Concat([i \in 1..Len(ws) |-> <<" ", " ">> \o ws[i]])

\* the header as EFIT writes it ("std"), with a word more in front ("long"),
\* with the last five words only ("five"), with the last four only ("four")
HeaderLine(g) ==
  LET last4 == <<g.time, <<"3">>, NumStr(g.nw), NumStr(g.nh)>>
      shot == << <<"#", "1", "2">> >>
      front == << <<"E", "F", "I", "T", "D">>, <<"0", "1", "/", "0", "2">> >>
  IN  CASE g.hdr = "std" -> Words(front \o shot \o last4)
        [] g.hdr = "long" -> Words(<< <<"X">> >> \o front \o shot \o last4)
        [] g.hdr = "five" -> Words(shot \o last4)
        [] g.hdr = "four" -> Words(last4)

\* xdim, zdim, rzero, rgrid0, zmid
GridLine(g) ==
  CASE g.grid = "a" -> MkTok(FALSE, 1, 2, "+", 0) \o MkTok(FALSE, 2, 4, "+", 0)
                       \o MkTok(FALSE, 1, 7, "+", 0) \o MkTok(FALSE, 5, 0, "-", 1)
                       \o MkTok(TRUE, 1, 0, "-", 1)
    [] g.grid = "b" -> MkTok(FALSE, 1, 2, "+", 0) \o MkTok(FALSE, 2, 4, "+", 0)
                       \o MkTok(TRUE, 9, 9, "+", 1) \o MkTok(FALSE, 5, 0, "-", 1)
                       \o MkTok(TRUE, 1, 0, "-", 1)
    [] g.grid = "zero" -> MkTok(FALSE, 0, 0, "+", 0) \o MkTok(FALSE, 0, 0, "+", 0)
                       \o MkTok(FALSE, 1, 7, "+", 0) \o MkTok(FALSE, 5, 0, "-", 1)
                       \o MkTok(FALSE, 0, 0, "+", 0)
    [] g.grid = "neg" -> MkTok(TRUE, 1, 2, "+", 0) \o MkTok(TRUE, 2, 4, "+", 0)
                       \o MkTok(FALSE, 1, 7, "+", 0) \o MkTok(FALSE, 5, 0, "-", 1)
                       \o MkTok(FALSE, 0, 0, "+", 0)
    [] g.grid = "blank" -> <<" ">>

\* rmaxis, zmaxis, simag, sibry, bcentr
AxisLine == MkTok(FALSE, 9, 0, "-", 1) \o MkTok(FALSE, 1, 0, "-", 1)
            \o MkTok(TRUE, 3, 0, "-", 1) \o MkTok(FALSE, 2, 0, "-", 1)
            \o MkTok(FALSE, 5, 4, "+", 0)

\* current, simag, xdum, rmaxis, xdum
IpLine(g) == g.ip \o MkTok(TRUE, 3, 0, "-", 1) \o MkTok(FALSE, 0, 0, "+", 0)
             \o MkTok(FALSE, 9, 0, "-", 1) \o MkTok(FALSE, 0, 0, "+", 0)

\* zmaxis, xdum, sibry, xdum, xdum
DupLine == MkTok(FALSE, 1, 0, "-", 1) \o MkTok(FALSE, 0, 0, "+", 0)
           \o MkTok(FALSE, 2, 0, "-", 1) \o MkTok(FALSE, 0, 0, "+", 0)
           \o MkTok(FALSE, 0, 0, "+", 0)

CountLine(g) == Words(<<NumStr(g.nbbbs), NumStr(g.limitr)>>)

Mandatory(g) ==
  <<HeaderLine(g), GridLine(g), AxisLine, IpLine(g), DupLine>>
  \o Section(1, g.nw, How(g, "fpol")) \o Section(2, g.nw, How(g, "pres"))
  \o Section(3, g.nw, How(g, "ffprim")) \o Section(4, g.nw, How(g, "pprime"))
  \o Section(5, g.nw * g.nh, How(g, "psirz")) \o Section(6, g.nw, How(g, "qpsi"))
  \o <<CountLine(g)>>
  \o Section(7, 2 * g.nbbbs, How(g, "bbbs")) \o Section(8, 2 * g.limitr, How(g, "lim"))

\* the lines with every decimal point overwritten by a zero
NoPoint(lines) ==
  [i \in 1..Len(lines) |->
     [j \in 1..Len(lines[i]) |-> IF lines[i][j] = "." THEN "0" ELSE lines[i][j]]]

\* the tail of the newer format: kvtor, rvtor, nmass; pressw and preswp if
\* kvtor > 0; dmion if nmass > 0; rhovn; keecur; workk if keecur > 0
TailLines(g) ==
  LET head == Words(<<NumStr(g.kvtor), Tail(MkTok(FALSE, 1, 7, "+", 0)), NumStr(g.nmass)>>)
      head2 == Words(<<NumStr(g.kvtor), NumStr(g.nmass)>>)
      pw == IF g.kvtor > 0
            THEN Section(9, g.nw, IF g.tail = "badsec" THEN "short" ELSE "good")
                 \o Section(1, g.nw, "good")
            ELSE <<>>
      dm == IF g.nmass > 0 THEN Section(2, g.nw, "good") ELSE <<>>
      rh == IF g.tail = "nodot" THEN NoPoint(Section(3, g.nw, "good"))
            ELSE Section(3, g.nw, IF g.tail = "badrho" THEN "extra" ELSE "good")
      ke == <<Words(<<NumStr(g.keecur)>>)>>
      wk == IF g.keecur > 0 THEN Section(4, g.nw, "good") ELSE <<>>
  IN  CASE g.tail = "none" -> <<>>
        [] g.tail = "twofields" -> <<head2>> \o pw \o dm \o rh \o ke \o wk
        [] g.tail = "cut" -> <<head>> \o pw \o dm
        [] OTHER -> <<head>> \o pw \o dm \o rh \o ke \o wk

TagKIN == <<"K", "I", "N">>
TagMSE == <<"M", "S", "E">>

FooterLines(g) ==
  LET one == <<" ", "e", "f", " ">> \o TagKIN
      other == <<" ", "&", " ", "x", " ">>
  IN  CASE g.footer = "none" -> <<>>
        [] g.footer = "one" -> <<one>>
        [] g.footer = "two" -> <<other, <<" ", "e", "f", " ", " ">> \o TagMSE \o <<" ">> >>
        [] g.footer = "blank" -> <<one, <<>> >>
        [] g.footer = "space" -> <<one, <<" ", " ">> >>
        [] g.footer = "comma" -> << <<" ", "e", "f", ",", " ">> \o TagKIN >>

\* the whole file, or the first g.keep[1] lines of it when the file is cut
GFile(g) ==
  IF g.keep = <<>> THEN Mandatory(g) \o TailLines(g) \o FooterLines(g)
  ELSE SubSeq(Mandatory(g), 1, g.keep[1])

(***************************************************************************)
(* The inputs.                                                             *)
(***************************************************************************)
BaseGen ==
  [nw |-> 2, nh |-> 2, nbbbs |-> 1, limitr |-> 1,
   time |-> <<"8", "7", "5", "m", "s">>, grid |-> "a",
   ip |-> MkTok(FALSE, 2, 0, "+", 5),
   tail |-> "ok", kvtor |-> 1, nmass |-> 1, keecur |-> 0,
   footer |-> "one", defect |-> <<"none", "good">>, hdr |-> "std", keep |-> <<>>]

\* the optional tail: absent, well-formed with each setting of the three
\* flags, malformed in four ways, and with rhovn written without points
TailKinds ==
  {[tail |-> "none", kvtor |-> 0, nmass |-> 0, keecur |-> 0]}
  \cup {[tail |-> "ok", kvtor |-> k, nmass |-> n, keecur |-> e] :
          k \in 0..1, n \in 0..1, e \in 0..1}
  \cup {[tail |-> t, kvtor |-> 1, nmass |-> 1, keecur |-> 0] :
          t \in {"twofields", "cut", "badsec", "badrho"}}
  \cup {[tail |-> "nodot", kvtor |-> 0, nmass |-> 0, keecur |-> 0]}

FooterKinds == {"none", "one", "two", "blank", "space", "comma"}

Defects ==
  {<<"none", "good">>, <<"bbbs", "extra">>, <<"bbbs", "short">>,
   <<"lim", "extra">>, <<"lim", "short">>, <<"psirz", "short">>,
   <<"qpsi", "extra">>, <<"fpol", "short">>, <<"psirz", "crowded">>,
   <<"psirz", "extra">>}

IpToks ==
  {MkTok(FALSE, 2, 0, "+", 5), MkTok(TRUE, 2, 0, "+", 5), MkTok(FALSE, 5, 0, "+", 4),
   MkTok(FALSE, 1, 0, "+", 5), MkTok(FALSE, 1, 1, "+", 5), MkTok(TRUE, 5, 0, "+", 4)}

TimeStrings == { <<"8", "7", "5", "m", "s">>, <<"2", "s">>, <<"4", "u", "s">> }

HeaderKinds == {"std", "long", "five", "four"}

\* the lines of the mandatory part of the widest file
CutFile == [BaseGen EXCEPT !.nw = MaxNw]

GridKinds == {"a", "b", "zero", "neg", "blank"}

Gens ==
  {[BaseGen EXCEPT !.nw = w, !.tail = t.tail, !.kvtor = t.kvtor,
                   !.nmass = t.nmass, !.keecur = t.keecur, !.footer = ft] :
     w \in 1..MaxNw, t \in TailKinds, ft \in FooterKinds}
  \cup
  {[BaseGen EXCEPT !.nw = w, !.nbbbs = b, !.limitr = l, !.defect = d] :
     w \in 1..MaxNw, b \in 1..MaxPts, l \in 1..MaxPts, d \in Defects}
  \cup
  {[BaseGen EXCEPT !.ip = i, !.time = t] : i \in IpToks, t \in TimeStrings}
  \cup
  {[BaseGen EXCEPT !.nw = w, !.nh = h, !.grid = k] :
     w \in 1..MaxNw, h \in 1..MaxNh, k \in GridKinds}
  \cup
  {[BaseGen EXCEPT !.hdr = h, !.nw = w] : h \in HeaderKinds, w \in 1..MaxNw}
  \cup
  {[CutFile EXCEPT !.keep = <<k>>] : k \in 0..(Len(Mandatory(CutFile)) - 1)}

\* what AFileReader finds: no a-file name, no such file, or an a-file
AFiles ==
  {[kind |-> "noname", base |-> 0], [kind |-> "absent", base |-> 0]}
  \cup {[kind |-> "ok", base |-> b] : b \in 1..MaxAFiles}

NoCall ==
  [name |-> "", arg |-> "", exc |-> "none", computed |-> FALSE, depth |-> 0,
   touched |-> FALSE, alias |-> "", out |-> ""]

\* no arguments left to look at
NoArgs == <<>>

\* no file names kept
NoNames == <<>>

\* the file names of a constructor called with both names given, both found:
\* self._afilename is None or a name, <<>> or <<name>>
GivenNames == [g |-> "gfile", a |-> <<"afile">>]

Init ==
  /\ gen \in Gens
  /\ file = GFile(gen)
  /\ pos = 1
  /\ pc = "header"
  /\ err = "none"
  /\ stage = ""
  /\ loc = [nw |-> 0, nh |-> 0, xdim |-> 0, zdim |-> 0, rgrid0 |-> 0, zmid |-> 0,
            nbbbs |-> 0, limitr |-> 0]
  /\ self = [n \in FieldNames |-> Unset]
  /\ tailErr = "none"
  /\ call = NoCall
  /\ ret = <<>>
  /\ held = ""
  /\ args = NoArgs
  /\ names = GivenNames
  /\ lastRead = 0

(***************************************************************************)
(* Lines 80-155: the names of the files.  a says which arguments of        *)
(* __init__ are given and how many files glob finds for the g-file pattern  *)
(* and for the a-file pattern the code looks up.                            *)
(***************************************************************************)
\* the most files a glob pattern matches
MaxMatches == 2

ArgSets ==
  [shot : BOOLEAN, time : BOOLEAN, gfile : BOOLEAN, afile : BOOLEAN,
   gfound : 0..MaxMatches, afound : 0..MaxMatches]

\* name is not None: shot and time are both given
Named(a) == a.shot /\ a.time

\* lines 101-122: self._gfilename, or the exception raised
GName(a) ==
  IF ~a.gfile
  THEN IF a.gfound = 1 THEN [err |-> "none", name |-> "gcurrfiles[0]"]
       ELSE [err |-> "ValueError", name |-> ""]
  ELSE IF a.gfound < 1 THEN [err |-> "ValueError", name |-> ""]
       ELSE [err |-> "none", name |-> "gfile"]

\* AName with the a-file found by name preferred to the one given
ANameGeneratedFirst(a) ==
  IF Named(a)
  THEN IF a.afound = 1 THEN [err |-> "none", name |-> <<"acurrfiles[0]">>]
       ELSE IF a.afound > 1 THEN [err |-> "ValueError", name |-> None]
       ELSE [err |-> "none", name |-> None]
  ELSE IF ~a.afile THEN [err |-> "none", name |-> None]
  ELSE IF a.afound < 1 THEN [err |-> "ValueError", name |-> None]
  ELSE [err |-> "none", name |-> <<"afile">>]

\* lines 129-155: self._afilename (None when no a-file is to be read), or
\* the exception raised
AName(a) ==
  IF ~a.afile
  THEN IF Named(a)
       THEN IF a.afound = 1 THEN [err |-> "none", name |-> <<"acurrfiles[0]">>]
            ELSE IF a.afound > 1 THEN [err |-> "ValueError", name |-> None]
            ELSE [err |-> "none", name |-> None]
       ELSE [err |-> "none", name |-> None]
  ELSE IF a.afound < 1 THEN [err |-> "ValueError", name |-> None]
       ELSE [err |-> "none", name |-> <<"afile">>]

NamesSet(a, g, af) ==
  IF ~Named(a) /\ ~a.gfile THEN [err |-> "IOError", names |-> NoNames]
  ELSE IF g.err # "none" THEN [err |-> g.err, names |-> NoNames]
  ELSE IF af.err # "none" THEN [err |-> af.err, names |-> NoNames]
  ELSE [err |-> "none", names |-> [g |-> g.name, a |-> af.name]]

NameStep(a) == NamesSet(a, GName(a), AName(a))

ResolveNames ==
  /\ pc = "names"
  /\ names' = NameStep(args).names
  /\ args' = NoArgs
  /\ IF NameStep(args).err = "none"
     THEN pc' = "header" /\ UNCHANGED <<err, stage>>
     ELSE pc' = "failed" /\ err' = NameStep(args).err /\ stage' = "names"
  /\ UNCHANGED <<gen, file, pos, loc, self, tailErr, call, ret, held, lastRead>>

(***************************************************************************)
(* __init__ as a sequence of steps.  An exception ends it: no object is    *)
(* returned.                                                               *)
(***************************************************************************)
Construct(cur, nxt, r) ==
  /\ pc = cur
  /\ pos' = r.pos
  /\ IF r.err = "none"
     THEN pc' = nxt /\ self' = r.self /\ loc' = r.loc /\ UNCHANGED <<err, stage>>
     ELSE pc' = "failed" /\ err' = r.err /\ stage' = cur /\ UNCHANGED <<self, loc>>
  /\ UNCHANGED <<gen, file, tailErr, call, ret, held, args, names, lastRead>>

ReadHeader == Construct("header", "grid", HeaderStep(file, pos, self, loc))
ReadGrid == Construct("grid", "axis", GridStep(file, pos, self, loc))
ReadAxis == Construct("axis", "ip", AxisStep(file, pos, self, loc))
ReadIp == Construct("ip", "skip", IpStep(file, pos, self, loc))
ReadSkip == Construct("skip", "fpol", SkipStep(file, pos, self, loc))
ReadFpol == Construct("fpol", "pres", ProfileStep("fpol", file, pos, self, loc))
ReadPres == Construct("pres", "ffprim", ProfileStep("fluxPres", file, pos, self, loc))
ReadFfprim == Construct("ffprim", "pprime", ProfileStep("ffprim", file, pos, self, loc))
ReadPprime == Construct("pprime", "psirz", ProfileStep("pprime", file, pos, self, loc))
ReadPsi == Construct("psirz", "qpsi", PsiStep(file, pos, self, loc))
ReadQpsi == Construct("qpsi", "counts", ProfileStep("qpsi", file, pos, self, loc))
ReadCounts == Construct("counts", "bbbs", CountStep(file, pos, self, loc))
ReadBbbs == Construct("bbbs", "lim", BbbsStep(file, pos, self, loc))
ReadLim == Construct("lim", "tail", LimStep(file, pos, self, loc))
ReadFooter == Construct("footer", "post", FooterStep(file, pos, self, loc))

\* the tail never ends the constructor: its exception is caught
Swallow(r) ==
  /\ pc = "tail"
  /\ pos' = r.pos
  /\ self' = r.self
  /\ tailErr' = r.caught
  /\ pc' = "footer"
  /\ UNCHANGED <<gen, file, err, stage, loc, call, ret, held, args, names,
                  lastRead>>

ReadTail == Swallow(TailStep(file, pos, self, loc))

\* the call of __init__ that returned the object, and what it printed
Constructed(out) == [NoCall EXCEPT !.name = "__init__", !.out = out]

\* the with block is left (the g-file is closed: the object keeps no
\* reference to its text), then lines 415-502.  The a-file read is the one
\* named by self._afilename; no operation below reads the file names again.
Finish ==
  /\ pc = "post"
  /\ \E a \in AFiles :
       /\ (a.kind = "noname") <=> (names.a = None)
       /\ LET r == PostStep(self, a)
          IN  IF r.err = "none"
              THEN /\ pc' = "ready" /\ self' = r.self /\ call' = Constructed(r.out)
                   /\ lastRead' = IF r.out = "" THEN a.base ELSE 0
                   /\ UNCHANGED <<err, stage>>
              ELSE /\ pc' = "failed" /\ err' = r.err /\ stage' = "post"
                   /\ UNCHANGED <<self, call, lastRead>>
  /\ file' = <<>>
  /\ gen' = <<>>
  /\ pos' = 0
  /\ tailErr' = "none"
  /\ names' = NoNames
  /\ UNCHANGED <<loc, ret, held, args>>

(***************************************************************************)
(* The accessors (lines 1097-1748).  An accessor returns ret; call records *)
(* which one ran, its argument and the exception it raised.                *)
(***************************************************************************)
\* the threshold of the current-sign rule: 1e5
IpThreshold == 100000

\* SignRule with the threshold itself counted as positive
SignRuleAtLeast(ip) == IF Mean(ip) >= IpThreshold * Scale THEN 1 ELSE -1

\* 1 if scipy.mean(self.getIpCalc()) > 1e5 else -1
SignRule(ip) == IF Mean(ip) > IpThreshold * Scale THEN 1 ELSE -1

\* CurrentSign computed anew on every call
CurrentSignUncached(sf) == SignRule(sf.IpCalc)

\* getCurrentSign: the cached sign, computed on the first call.  The
\* attribute is None or an int: <<>> or <<sign>>.
CurrentSign(sf) ==
  IF sf.currentSign = None THEN SignRule(sf.IpCalc) ELSE sf.currentSign[1]

\* the object after getCurrentSign
CacheSign(sf) == [sf EXCEPT !.currentSign = <<CurrentSign(sf)>>]

\* a times every element of a 1-D array
Scaled(a, v) == [i \in 1..Len(v) |-> a * v[i]]

\* units of length known to the conversion, as the number of them in a meter
LengthUnits == {"m", "cm", "mm"}

PerMeter(u) == CASE u = "m" -> 1 [] u = "cm" -> 100 [] u = "mm" -> 1000

\* the unit a length_unit argument asks for: a power (1, 2, 3) and 'default'
\* mean meters
AskedUnit(u) == IF u \in {"1", "2", "3", "default"} THEN "m" ELSE u

\* Equilibrium._getLengthConversionFactor(start, end), applied to v
ConvertOk(u) == AskedUnit(u) \in LengthUnits

Convert(v, from, u) ==
  [i \in 1..Len(v) |-> DivT(v[i] * PerMeter(AskedUnit(u)), PerMeter(from))]

\* self._defaultUnits: the unit of length (cm^2 and cm^3 are cm)
DefaultUnits(name) ==
  CASE name \in {"rGrid", "zGrid", "RLCFS", "ZLCFS", "RmidLCFS"} -> "m"
    [] name \in {"rq1", "rq2", "rq3", "rmag", "zmag", "aLCFS"} -> "cm"
    [] name \in {"areaLCFS", "volLCFS"} -> "cm"

\* self._defaultUnits: the power of the unit of length (cm^2, cm^3)
DefaultPower(name) ==
  IF name = "areaLCFS" THEN 2 ELSE IF name = "volLCFS" THEN 3 ELSE 1

\* b to the power 1, 2 or 3
Raised(b, n) == IF n = 1 THEN b ELSE IF n = 2 THEN b * b ELSE b * b * b

\* _getLengthConversionFactor for a length, an area or a volume, applied to
\* v: the factor is a whole number or one over a whole number
ConvertPower(v, from, u, n) ==
  IF PerMeter(AskedUnit(u)) >= PerMeter(from)
  THEN [i \in 1..Len(v) |->
          v[i] * Raised(PerMeter(AskedUnit(u)) \div PerMeter(from), n)]
  ELSE [i \in 1..Len(v) |->
          DivT(v[i], Raised(PerMeter(from) \div PerMeter(AskedUnit(u)), n))]

\* the length_unit arguments the model passes
UnitArgs == {"1", "cm", "furlong"}

\* the names the model passes to getParam
ParamNames == {"IpCalc"}

\* the first element of an array of the given depth negated: what a caller
\* does to an array it was handed
NegFirst(v, depth) ==
  IF depth = 1 THEN [v EXCEPT ![1] = -v[1]]
  ELSE IF depth = 2 THEN [v EXCEPT ![1][1] = -v[1][1]]
  ELSE [v EXCEPT ![1][1][1] = -v[1][1][1]]

\* SharedWith with getIpCalc returning self._IpCalc itself
SharedWithoutCopy(name, arg) ==
  IF name = "getParam" THEN arg ELSE IF name = "getIpCalc" THEN "IpCalc" ELSE ""

\* the stored attribute whose array the value an accessor returns is ("" if
\* none): every typed getter returns self._x.copy() or a product, a new
\* array; getParam returns the attribute itself
SharedWith(name, arg) == IF name = "getParam" THEN arg ELSE ""

Returns(name, arg, value, depth, computed) ==
  /\ call' = [name |-> name, arg |-> arg, exc |-> "none",
              computed |-> computed, depth |-> depth, touched |-> FALSE,
              alias |-> SharedWith(name, arg), out |-> ""]
  /\ ret' = value

Raises(name, arg, exc) ==
  /\ call' = [name |-> name, arg |-> arg, exc |-> exc,
              computed |-> FALSE, depth |-> 0, touched |-> FALSE,
              alias |-> "", out |-> ""]
  /\ ret' = <<>>

\* what a call on the object leaves alone
Called == UNCHANGED <<gen, file, pos, pc, err, stage, loc, tailErr, args, names>>

\* what an accessor leaves alone: it reads no a-file
Frame == Called /\ UNCHANGED lastRead

getCurrentSign ==
  /\ pc = "ready"
  /\ Returns("getCurrentSign", "", CurrentSign(self), 0, self.currentSign = None)
  /\ self' = CacheSign(self)
  /\ UNCHANGED held /\ Frame

getIpCalc ==
  /\ pc = "ready"
  /\ Returns("getIpCalc", "", self.IpCalc, 1, FALSE)
  /\ UNCHANGED <<self, held>> /\ Frame

\* FluxOf without the factor -1
FluxOfUnsigned(sf, name) == Scaled(CurrentSign(sf), sf[name])

\* -1. * self.getCurrentSign() * scipy.array(self._psiAxis)
FluxOf(sf, name) == Scaled(-1 * CurrentSign(sf), sf[name])

getFluxAxis ==
  /\ pc = "ready"
  /\ Returns("getFluxAxis", "", FluxOf(self, "psiAxis"), 1, self.currentSign = None)
  /\ self' = CacheSign(self)
  /\ UNCHANGED held /\ Frame

getFluxLCFS ==
  /\ pc = "ready"
  /\ Returns("getFluxLCFS", "", FluxOf(self, "psiLCFS"), 1, self.currentSign = None)
  /\ self' = CacheSign(self)
  /\ UNCHANGED held /\ Frame

\* a getter of a length: unit_factor * self._<name>.copy()
LengthGetter(getter, name) ==
  /\ pc = "ready"
  /\ \E u \in UnitArgs :
       IF ConvertOk(u)
       THEN Returns(getter, u, Convert(self[name], DefaultUnits(name), u), 1, FALSE)
       ELSE Raises(getter, u, "ValueError")
  /\ UNCHANGED <<self, held>> /\ Frame

getRGrid == LengthGetter("getRGrid", "rGrid")
getZGrid == LengthGetter("getZGrid", "zGrid")

\* getParam(name): type(attr) is scipy.array never holds (scipy.array is a
\* function, not the type of an array), so the attribute itself is
\* returned, not a copy: the caller holds the stored array
GetParamValue(sf, name) == sf[name]

getParam ==
  /\ pc = "ready"
  /\ \E n \in ParamNames :
       /\ Returns("getParam", n, GetParamValue(self, n), 1, FALSE)
       /\ held' = n
  /\ UNCHANGED self /\ Frame

\* the caller changes, in place, the array getParam handed out: the stored
\* array is that array
MutateHeld ==
  /\ pc = "ready"
  /\ held # ""
  /\ self' = [self EXCEPT ![held] = NegFirst(self[held], 1)]
  /\ call' = [name |-> "mutate", arg |-> held, exc |-> "none",
              computed |-> FALSE, depth |-> 1, touched |-> TRUE,
              alias |-> held, out |-> ""]
  /\ ret' = NegFirst(self[held], 1)
  /\ UNCHANGED held /\ Frame

\* the object after the array a call returned was changed in place: a
\* stored array changes when it is the array returned
AfterMutation(sf, alias, v) == IF alias = "" THEN sf ELSE [sf EXCEPT ![alias] = v]

\* the caller changes, in place, the array a typed getter returned
MutateRet ==
  /\ pc = "ready"
  /\ call.name \notin {"", "getParam", "mutate"}
  /\ call.exc = "none" /\ call.depth > 0 /\ ~call.touched
  /\ ret' = NegFirst(ret, call.depth)
  /\ call' = [call EXCEPT !.touched = TRUE]
  /\ self' = AfterMutation(self, call.alias, NegFirst(ret, call.depth))
  /\ UNCHANGED held /\ Frame

\* readAFile(afile) called on the object
readAFile ==
  /\ pc = "ready"
  /\ \E a \in AFiles :
       /\ a.kind # "noname"
       /\ LET r == ReadAFile(self, a)
          IN  /\ self' = r.self
              /\ lastRead' = IF r.err = "none" THEN a.base ELSE lastRead
              /\ IF r.err = "none" THEN Returns("readAFile", a.kind, <<>>, 0, FALSE)
                 ELSE Raises("readAFile", a.kind, r.err)
  /\ UNCHANGED held /\ Called

(***************************************************************************)
(* The getters of the a-file attributes (lines 1164-1705).                 *)
(***************************************************************************)
\* ValueError('must read a-file for this data.')
MustReadAFile == "ValueError: must read a-file for this data."

\* the exceptions an except ValueError clause catches
IsValueError(exc) == exc \in {"ValueError", MustReadAFile}

\* the getters written as getElongation is, each with its attribute
ScalarGetters ==
  {<<"getElongation", "kappa">>, <<"getUpperTriangularity", "dupper">>,
   <<"getLowerTriangularity", "dlower">>, <<"getQ0", "q0">>,
   <<"getQ95", "q95">>, <<"getQLCFS", "qLCFS">>, <<"getBtVac", "btaxv">>,
   <<"getBtPla", "btaxp">>, <<"getBpAvg", "bpolav">>,
   <<"getIpMeas", "IpMeas">>, <<"getBetaT", "betat">>,
   <<"getBetaP", "betap">>, <<"getLi", "Li">>, <<"getDiamagFlux", "diamag">>,
   <<"getDiamagBetaT", "betatd">>, <<"getDiamagBetaP", "betapd">>,
   <<"getDiamagTauE", "tauDiamag">>, <<"getDiamagWp", "WDiamag">>,
   <<"getWMHD", "WMHD">>, <<"getTauMHD", "tauMHD">>, <<"getPinj", "Pinj">>,
   <<"getWbdot", "Wbdot">>, <<"getWpdot", "Wpdot">>}

\* the getters written as getMagR is, each with its attribute and the
\* default of length_unit
LengthGetters ==
  {<<"getVolLCFS", "volLCFS", "3">>, <<"getMagR", "rmag", "1">>,
   <<"getMagZ", "zmag", "1">>, <<"getAreaLCFS", "areaLCFS", "2">>,
   <<"getAOut", "aLCFS", "1">>, <<"getRmidOut", "RmidLCFS", "1">>,
   <<"getQ1Surf", "rq1", "1">>, <<"getQ2Surf", "rq2", "1">>,
   <<"getQ3Surf", "rq3", "1">>}

\* the length_unit arguments the model passes to a getter with default d
UnitArgsFor(d) == IF d = "1" THEN UnitArgs ELSE {d, "furlong"}

\* GatedValue with zero returned for an attribute that is None
GatedValueZero(sf, name) ==
  IF sf[name] = None THEN [exc |-> "none", value |-> <<0>>]
  ELSE [exc |-> "none", value |-> sf[name]]

\* if self._<name> is None: raise ValueError(...) else: return self._<name>.copy()
GatedValue(sf, name) ==
  IF sf[name] = None THEN [exc |-> MustReadAFile, value |-> <<>>]
  ELSE [exc |-> "none", value |-> sf[name]]

\* ... else: return unit_factor * self._<name>.copy()
GatedLength(sf, name, u) ==
  IF sf[name] = None THEN [exc |-> MustReadAFile, value |-> <<>>]
  ELSE IF ~ConvertOk(u) THEN [exc |-> "ValueError", value |-> <<>>]
  ELSE [exc |-> "none",
        value |-> ConvertPower(sf[name], DefaultUnits(name), u, DefaultPower(name))]

\* how a getter ends: r.value returned or r.exc raised
Answer(getter, arg, r, depth) ==
  IF r.exc = "none" THEN Returns(getter, arg, r.value, depth, FALSE)
  ELSE Raises(getter, arg, r.exc)

\* getElongation, getQ0, getWMHD, ...
getAFileScalar ==
  /\ pc = "ready"
  /\ \E p \in ScalarGetters : Answer(p[1], "", GatedValue(self, p[2]), 1)
  /\ UNCHANGED <<self, held>> /\ Frame

\* getMagR, getAreaLCFS, getVolLCFS, ...
getAFileLength ==
  /\ pc = "ready"
  /\ \E p \in LengthGetters :
       \E u \in UnitArgsFor(p[3]) : Answer(p[1], u, GatedLength(self, p[2], u), 1)
  /\ UNCHANGED <<self, held>> /\ Frame

(***************************************************************************)
(* The getters that return several a-file scalars as a namedtuple.  A      *)
(* constituent is <<attribute, length_unit passed when the caller gave      *)
(* None>>, "" for a getter that takes no unit.                              *)
(***************************************************************************)
CompositeGetters ==
  {[name |-> "getShaping", units |-> {""},
    parts |-> << <<"kappa", "">>, <<"dupper", "">>, <<"dlower", "">> >>],
   [name |-> "getGeometry", units |-> {"None", "cm", "furlong"},
    parts |-> << <<"rmag", "1">>, <<"zmag", "1">>, <<"areaLCFS", "2">>,
                 <<"aLCFS", "1">>, <<"RmidLCFS", "1">> >>],
   [name |-> "getQs", units |-> UnitArgs,
    parts |-> << <<"q0", "">>, <<"q95", "">>, <<"qLCFS", "">>, <<"rq1", "1">>,
                 <<"rq2", "1">>, <<"rq3", "1">> >>],
   [name |-> "getFields", units |-> {""},
    parts |-> << <<"btaxv", "">>, <<"btaxp", "">>, <<"bpolav", "">> >>],
   [name |-> "getBetas", units |-> {""},
    parts |-> << <<"betat", "">>, <<"betap", "">>, <<"Li", "">> >>],
   [name |-> "getDiamag", units |-> {""},
    parts |-> << <<"diamag", "">>, <<"betatd", "">>, <<"betapd", "">>,
                 <<"tauDiamag", "">>, <<"WDiamag", "">> >>],
   [name |-> "getEnergy", units |-> {""},
    parts |-> << <<"WMHD", "">>, <<"tauMHD", "">>, <<"Pinj", "">>,
                 <<"Wbdot", "">>, <<"Wpdot", "">> >>]}

\* the call of one constituent getter
PartValue(sf, part, u) ==
  IF part[2] = "" THEN GatedValue(sf, part[1])
  ELSE GatedLength(sf, part[1], IF u = "None" THEN part[2] ELSE u)

PartValues(sf, parts, u) == [i \in 1..Len(parts) |-> PartValue(sf, parts[i], u)]

\* the first constituent getter that raised
FirstRaised(rs) == CHOOSE k \in 1..Len(rs) :
                     rs[k].exc # "none" /\ \A j \in 1..(k - 1) : rs[j].exc = "none"

\* CompositeOf with the namedtuple built from whatever the getters gave
CompositeOfPartial(rs) == [exc |-> "none", value |-> [i \in 1..Len(rs) |-> rs[i].value]]

\* try: the getters in turn, return data(...); except ValueError: raise
\* ValueError('must read a-file for this data.')
CompositeOf(rs) ==
  IF \A i \in 1..Len(rs) : rs[i].exc = "none"
  THEN [exc |-> "none", value |-> [i \in 1..Len(rs) |-> rs[i].value]]
  ELSE [exc |-> IF IsValueError(rs[FirstRaised(rs)].exc) THEN MustReadAFile
                ELSE rs[FirstRaised(rs)].exc,
        value |-> <<>>]

\* getShaping, getGeometry, getQs, getFields, getBetas, getDiamag, getEnergy
getComposite ==
  /\ pc = "ready"
  /\ \E c \in CompositeGetters :
       \E u \in c.units :
          Answer(c.name, u, CompositeOf(PartValues(self, c.parts, u)), 0)
  /\ UNCHANGED <<self, held>> /\ Frame

(***************************************************************************)
(* The other getters of g-file values (lines 1097-1191, 1333-1337).        *)
(***************************************************************************)
\* getTimeBase, getFluxGrid, getFluxPres, getQProfile: return
\* self._<name>.copy(); the third entry is the number of axes of the array
getGFileArray ==
  /\ pc = "ready"
  /\ \E p \in {<<"getTimeBase", "time", 1>>, <<"getFluxGrid", "psiRZ", 3>>,
                <<"getFluxPres", "fluxPres", 2>>, <<"getQProfile", "qpsi", 2>>} :
       Returns(p[1], "", self[p[2]], p[3], FALSE)
  /\ UNCHANGED <<self, held>> /\ Frame

\* unit_factor * self._<name>.copy() for an array of shape (n,1)
ConvertColumn(v, from, u) == [i \in 1..Len(v) |-> Convert(v[i], from, u)]

\* getRLCFS, getZLCFS
getBoundary ==
  /\ pc = "ready"
  /\ \E p \in {<<"getRLCFS", "RLCFS">>, <<"getZLCFS", "ZLCFS">>} :
       \E u \in UnitArgs :
          IF ConvertOk(u)
          THEN Returns(p[1], u, ConvertColumn(self[p[2]], DefaultUnits(p[2]), u), 2,
                       FALSE)
          ELSE Raises(p[1], u, "ValueError")
  /\ UNCHANGED <<self, held>> /\ Frame

(***************************************************************************)
(* The mapping routines (lines 608-1095).  The caller may pass a time      *)
(* after the coordinates and may set the keyword return_t; ret records the *)
(* call made to the routine of Equilibrium, whose value is returned.       *)
(***************************************************************************)
CallerOptions == [time : {"none", "given"}, return_t : {"unset", "True", "False"}]

\* Volnorm raising the a-file error while no a-file is read
VolnormGated(sf, o) ==
  [exc |-> IF sf.volLCFS = None THEN MustReadAFile ELSE "NotImplementedError",
   value |-> <<>>]

\* raise NotImplementedError('Cannot calculate volnorm from g-file equilibria.')
Volnorm(sf, o) == [exc |-> "NotImplementedError", value |-> <<>>]

\* rz2volnorm, psinorm2volnorm
Unsupported ==
  /\ pc = "ready"
  /\ \E routine \in {"rz2volnorm", "psinorm2volnorm"} :
       \E o \in CallerOptions : Answer(routine, o, Volnorm(self, o), 0)
  /\ UNCHANGED <<self, held>> /\ Frame

\* StoredTime with the time the caller passed used when there is one
StoredTimeOrCallers(sf, o) == IF o.time = "given" THEN 0 - 1 ELSE sf.time[1]

\* t = self.getTimeBase()[0]: the time the caller passed is not looked at
StoredTime(sf, o) == sf.time[1]

\* def f(self,R,Z,*args,**kwargs): super().f(R,Z,t,**kwargs): the keywords
\* of the caller go to the routine as they are
PassedOn(sf, routine, o) ==
  [exc |-> "none",
   value |-> [routine |-> routine, t |-> StoredTime(sf, o), return_t |-> o.return_t]]

\* def f(self,R,Z,sqrt=False,...): return_t is no parameter (TypeError when
\* the caller sets it; a time passed by position lands in the next
\* parameter); kwargs = {'return_t':False,...}; super().f(R,Z,t,**kwargs)
Fixed(sf, routine, o) ==
  IF o.return_t # "unset" THEN [exc |-> "TypeError", value |-> <<>>]
  ELSE [exc |-> "none",
        value |-> [routine |-> routine, t |-> StoredTime(sf, o), return_t |-> "False"]]

\* rz2psi, rz2psinorm
PassingWrapper ==
  /\ pc = "ready"
  /\ \E routine \in {"rz2psi", "rz2psinorm"} :
       \E o \in CallerOptions : Answer(routine, o, PassedOn(self, routine, o), 0)
  /\ UNCHANGED <<self, held>> /\ Frame

\* rz2phinorm, rz2rho, rz2rmid, psinorm2rmid, psinorm2phinorm
FixedWrapper ==
  /\ pc = "ready"
  /\ \E routine \in {"rz2phinorm", "rz2rho", "rz2rmid", "psinorm2rmid",
                      "psinorm2phinorm"} :
       \E o \in CallerOptions : Answer(routine, o, Fixed(self, routine, o), 0)
  /\ UNCHANGED <<self, held>> /\ Frame

Next ==
  \/ ReadHeader \/ ReadGrid \/ ReadAxis \/ ReadIp \/ ReadSkip
  \/ ReadFpol \/ ReadPres \/ ReadFfprim \/ ReadPprime \/ ReadPsi \/ ReadQpsi
  \/ ReadCounts \/ ReadBbbs \/ ReadLim \/ ReadTail \/ ReadFooter \/ Finish
  \/ getCurrentSign \/ getIpCalc \/ getFluxAxis \/ getFluxLCFS
  \/ getRGrid \/ getZGrid \/ getParam \/ MutateHeld \/ MutateRet \/ readAFile

Spec == Init /\ [][Next]_vars

(***************************************************************************)
(* The whole interface: __init__ from its arguments on, then every         *)
(* accessor, on g-files that differ in the calculated current.             *)
(***************************************************************************)
ApiGens ==
  {[BaseGen EXCEPT !.ip = i, !.time = t] :
     i \in {MkTok(FALSE, 2, 0, "+", 5), MkTok(TRUE, 2, 0, "+", 5)}, t \in TimeStrings}

ApiInit ==
  /\ gen \in ApiGens
  /\ file = GFile(gen)
  /\ pos = 1
  /\ pc = "names"
  /\ err = "none"
  /\ stage = ""
  /\ loc = [nw |-> 0, nh |-> 0, xdim |-> 0, zdim |-> 0, rgrid0 |-> 0, zmid |-> 0,
            nbbbs |-> 0, limitr |-> 0]
  /\ self = [n \in FieldNames |-> Unset]
  /\ tailErr = "none"
  /\ call = NoCall
  /\ ret = <<>>
  /\ held = ""
  /\ args \in ArgSets
  /\ names = NoNames
  /\ lastRead = 0

ApiNext ==
  \/ ResolveNames \/ Next
  \/ getGFileArray \/ getBoundary \/ getAFileScalar \/ getAFileLength
  \/ getComposite \/ PassingWrapper \/ FixedWrapper \/ Unsupported

ApiSpec == ApiInit /\ [][ApiNext]_vars

(***************************************************************************)
(* The properties.  While the constructor runs (pc before "ready") gen and *)
(* file are the g-file being read; the statements about the file's text    *)
(* are made there.                                                         *)
(***************************************************************************)
\* the optional tail is behind: the try/except has run
TailDone == pc \in {"footer", "post"}

\* the five optional fields
OptionalFields == {"presw", "preswp", "dmion", "rhovn", "workk"}

\* the line on which the optional tail starts
TailStart == Len(Mandatory(gen)) + 1

\* the words of the last line of f[1..i] that has a word (<<>> if none has)
RECURSIVE LastWords(_, _)
LastWords(f, i) ==
  IF i = 0 THEN <<>>
  ELSE IF Split(f[i]) # <<>> THEN Split(f[i])
  ELSE LastWords(f, i - 1)

\* an (n,1) array
IsColumn(a, n) == Len(a) = n /\ \A i \in 1..Len(a) : Len(a[i]) = 1

StrictlyIncreasing(s) == \A i \in 1..(Len(s) - 1) : s[i] < s[i + 1]

\* the five values of the grid-construction line, as the file gives them
GridValues == [i \in 1..5 |-> FloatOf(FindAll(file[2], FALSE)[i])]

\* the grid-construction line has been read and the file is still open
GridRead == pc \notin {"header", "grid", "failed", "ready"}

\* C1: when the mandatory sections parse and the tail is well-formed with
\* kvtor > 0, the rotational-pressure field and its derivative each hold nw
\* values and are not the sentinel.
C1_RotationalPressureRead ==
  (TailDone /\ gen.tail = "ok" /\ gen.kvtor > 0) =>
     /\ self.presw # Sentinel /\ IsColumn(self.presw, gen.nw)
     /\ self.preswp # Sentinel /\ IsColumn(self.preswp, gen.nw)

\* C2: when no line remains after the last section the parser consumed,
\* the footer step succeeds and leaves the tag unset.
C2_NoLineLeftTagUnset ==
  [][(pc = "footer" /\ pos > Len(file)) =>
       (pc' = "post" /\ self'.efittype = Unset)]_vars

\* C3: once the mandatory sections have parsed, whatever the optional tail
\* and whether or not blank lines follow the footer, the footer step succeeds
\* and the tag is the last word of the file's last non-empty line.
C3_TagIsLastWordOfLastLine ==
  ((pc = "post" \/ (pc = "failed" /\ stage = "footer")) /\ gen.footer # "none") =>
     /\ pc = "post"
     /\ self.efittype = LastWords(file, Len(file))[Len(LastWords(file, Len(file)))]

C6_ShapesFollowCounts ==
  /\ pc = "post" =>
        /\ loc.nw = gen.nw /\ loc.nh = gen.nh
        /\ loc.nbbbs = gen.nbbbs /\ loc.limitr = gen.limitr
  /\ pc \in {"post", "ready"} =>
        /\ Len(self.psiRZ) = 1 /\ Len(self.psiRZ[1]) = loc.nh
        /\ \A z \in 1..loc.nh : Len(self.psiRZ[1][z]) = loc.nw
        /\ \A n \in {"fpol", "fluxPres", "ffprim", "pprime", "qpsi"} :
              IsColumn(self[n], loc.nw)
        /\ IsColumn(self.RLCFS, loc.nbbbs) /\ IsColumn(self.ZLCFS, loc.nbbbs)
        /\ Len(self.xlim) = loc.limitr /\ Len(self.ylim) = loc.limitr
  /\ pc \in {"lim", "tail", "footer", "post"} => gen.defect[1] # "bbbs"
  /\ pc \in {"tail", "footer", "post"} => gen.defect[1] # "lim"

C6_Witness ==
  /\ pc = "ready" /\ loc.nw = 3 /\ loc.nh = 2 /\ loc.nbbbs = 2 /\ loc.limitr = 1
  /\ Len(self.psiRZ[1]) = 2 /\ Len(self.RLCFS) = 2

\* C7: with nw >= 2, nh >= 2 and positive width and height, getRGrid
\* returns nw values and getZGrid nh values, strictly increasing.
C7_AxesCountedAndIncreasing ==
  (/\ call.name \in {"getRGrid", "getZGrid"} /\ call.exc = "none" /\ ~call.touched
   /\ loc.nw >= 2 /\ loc.nh >= 2 /\ loc.xdim > 0 /\ loc.zdim > 0) =>
     /\ Len(ret) = (IF call.name = "getRGrid" THEN loc.nw ELSE loc.nh)
     /\ StrictlyIncreasing(ret)

C7_Witness ==
  /\ call.name = "getZGrid" /\ call.arg = "cm" /\ call.exc = "none" /\ ~call.touched
  /\ loc.nw = 3 /\ loc.nh = 2 /\ loc.xdim > 0 /\ loc.zdim > 0
  /\ Len(ret) = 2 /\ ret[1] < ret[2]

\* C8 as stated: for every grid, the first R sample is the origin, last
\* minus first R the width, last minus first Z the height, and the mean of
\* the first and last Z the midpoint (values 1, 2, 4, 5 of the line).
C8_AxesFromFourValues ==
  GridRead =>
     /\ self.rGrid[1] = GridValues[4]
     /\ self.rGrid[Len(self.rGrid)] - self.rGrid[1] = GridValues[1]
     /\ self.zGrid[Len(self.zGrid)] - self.zGrid[1] = GridValues[2]
     /\ self.zGrid[1] + self.zGrid[Len(self.zGrid)] = 2 * GridValues[5]

\* C8 amended: the first R sample is the origin for every grid; the width
\* is last minus first R when nw >= 2; the height and the midpoint are the
\* difference and the mean of the first and last Z when nh >= 2; an axis of
\* one sample is its start: the origin, or the midpoint less half the height.
C8_AxesFromFourValuesTwoSamples ==
  GridRead =>
     /\ self.rGrid[1] = GridValues[4]
     /\ loc.nw >= 2 =>
           self.rGrid[Len(self.rGrid)] - self.rGrid[1] = GridValues[1]
     /\ loc.nh >= 2 =>
           /\ self.zGrid[Len(self.zGrid)] - self.zGrid[1] = GridValues[2]
           /\ self.zGrid[1] + self.zGrid[Len(self.zGrid)] = 2 * GridValues[5]
     /\ loc.nw = 1 => self.rGrid = <<GridValues[4]>>
     /\ loc.nh = 1 => self.zGrid = <<GridValues[5] - DivT(GridValues[2], 2)>>

C8_Witness ==
  /\ pc = "post" /\ gen.grid = "b" /\ loc.nw = 3 /\ loc.nh = 2
  /\ self.rGrid[3] - self.rGrid[1] = GridValues[1]
  /\ GridValues[1] > 0 /\ GridValues[3] < 0

\* C9: a call of getCurrentSign that computes the sign returns 1 exactly
\* when the calculated current is greater than 1e5, and -1 otherwise.
C9_SignIsOneAboveThreshold ==
  (call.name = "getCurrentSign" /\ call.computed) =>
     /\ ret \in {1, -1}
     /\ (ret = 1) <=> (self.IpCalc[1] > 100000 * Scale)

\* C9 witness: a current of exactly 1e5 gives -1
C9_Witness ==
  /\ call.name = "getCurrentSign" /\ call.computed
  /\ self.IpCalc[1] = 100000 * Scale /\ ret = -1

\* C10: once the sign is cached no step changes it, every later
\* getCurrentSign returns it, and getFluxAxis and getFluxLCFS use it.
C10_SignNeverChanges ==
  [][self.currentSign # None =>
       /\ self'.currentSign = self.currentSign
       /\ call'.name = "getCurrentSign" => ret' = self.currentSign[1]
       /\ (call'.name = "getFluxAxis" /\ ~call'.touched) =>
             ret' = Scaled(-1 * self.currentSign[1], self.psiAxis)
       /\ (call'.name = "getFluxLCFS" /\ ~call'.touched) =>
             ret' = Scaled(-1 * self.currentSign[1], self.psiLCFS)]_vars

\* C10 witness: the cached 1 is returned although the stored current has
\* since been made negative through the array getParam handed out
C10_Witness ==
  /\ call.name = "getCurrentSign" /\ ~call.computed /\ ret = 1
  /\ self.currentSign = <<1>> /\ self.IpCalc[1] < 0

\* the stored attribute a flux getter reads
FluxAttr(getter) == IF getter = "getFluxAxis" THEN "psiAxis" ELSE "psiLCFS"

\* every element of a 1-D array negated
Negated(v) == [i \in 1..Len(v) |-> 0 - v[i]]

\* C11: getFluxAxis and getFluxLCFS return the stored flux scalar times -1
\* times the current sign: the stored value itself when the sign is -1, its
\* negation when the sign is 1; the call leaves the stored scalars as they
\* were.
C11_FluxIsMinusSignTimesStored ==
  [][(call'.name \in {"getFluxAxis", "getFluxLCFS"} /\ ~call'.touched) =>
       /\ self'.psiAxis = self.psiAxis /\ self'.psiLCFS = self.psiLCFS
       /\ self'.currentSign \in {<<1>>, <<-1>>}
       /\ self'.currentSign = <<-1>> => ret' = self[FluxAttr(call'.name)]
       /\ self'.currentSign = <<1>> => ret' = Negated(self[FluxAttr(call'.name)])]_vars

\* C11 witness: with sign 1 the flux on axis is returned negated
C11_Witness ==
  /\ call.name = "getFluxAxis" /\ ~call.touched /\ self.currentSign = <<1>>
  /\ self.psiAxis[1] # 0 /\ ret = <<0 - self.psiAxis[1]>>

\* the getters of a-file scalars and the attribute each returns: those
\* without a unit, and those of a length, an area or a volume
PlainGetters ==
  {<<"getElongation", "kappa">>, <<"getUpperTriangularity", "dupper">>,
   <<"getLowerTriangularity", "dlower">>, <<"getQ0", "q0">>,
   <<"getQ95", "q95">>, <<"getQLCFS", "qLCFS">>, <<"getBtVac", "btaxv">>,
   <<"getBtPla", "btaxp">>, <<"getBpAvg", "bpolav">>,
   <<"getIpMeas", "IpMeas">>, <<"getBetaT", "betat">>,
   <<"getBetaP", "betap">>, <<"getLi", "Li">>,
   <<"getDiamagFlux", "diamag">>, <<"getDiamagBetaT", "betatd">>,
   <<"getDiamagBetaP", "betapd">>, <<"getDiamagTauE", "tauDiamag">>,
   <<"getDiamagWp", "WDiamag">>, <<"getWMHD", "WMHD">>,
   <<"getTauMHD", "tauMHD">>, <<"getPinj", "Pinj">>,
   <<"getWbdot", "Wbdot">>, <<"getWpdot", "Wpdot">>}

UnitGetters ==
  {<<"getVolLCFS", "volLCFS">>, <<"getMagR", "rmag">>, <<"getMagZ", "zmag">>,
   <<"getAreaLCFS", "areaLCFS">>, <<"getAOut", "aLCFS">>,
   <<"getRmidOut", "RmidLCFS">>, <<"getQ1Surf", "rq1">>,
   <<"getQ2Surf", "rq2">>, <<"getQ3Surf", "rq3">>}

GetterNames(table) == {p[1] : p \in table}

AttrOf(getter) == (CHOOSE p \in PlainGetters \cup UnitGetters : p[1] = getter)[2]

\* the unit the a-file gives a length in, and its power
NativeUnit(getter) == IF getter = "getRmidOut" THEN "m" ELSE "cm"

NativePower(getter) ==
  IF getter = "getAreaLCFS" THEN 2 ELSE IF getter = "getVolLCFS" THEN 3 ELSE 1

\* the value a-file number b holds for an attribute
AFileValue(b, attr) ==
  <<AfrValue([kind |-> "ok", base |-> b],
             CHOOSE i \in 1..Len(AFields) : AFields[i][1] = attr)>>

\* C12: whatever construction, readAFile calls and getter calls came before,
\* a getter of an a-file scalar raises 'must read a-file for this data'
\* exactly when no a-file read has succeeded so far; otherwise it returns
\* the value of the most recent successful read (in the unit asked for, or
\* the unit error for an unknown unit), never a value for an unset field.
C12_GatedIffNoReadSucceeded ==
  (call.name \in GetterNames(PlainGetters \cup UnitGetters) /\ ~call.touched) =>
     /\ (call.exc = MustReadAFile) <=> (lastRead = 0)
     /\ lastRead = 0 => ret = <<>>
     /\ (lastRead # 0 /\ call.name \in GetterNames(PlainGetters)) =>
           call.exc = "none" /\ ret = AFileValue(lastRead, AttrOf(call.name))
     /\ (lastRead # 0 /\ call.name \in GetterNames(UnitGetters)) =>
           IF call.arg = "furlong" THEN call.exc = "ValueError"
           ELSE /\ call.exc = "none"
                /\ ret = ConvertPower(AFileValue(lastRead, AttrOf(call.name)),
                                      NativeUnit(call.name), call.arg,
                                      NativePower(call.name))

\* C12 witness: the stored energy of the second a-file is returned
C12_Witness ==
  /\ call.name = "getWMHD" /\ call.exc = "none" /\ ~call.touched
  /\ lastRead = 2 /\ ret = AFileValue(2, "WMHD") /\ ret = self.WMHD

\* the attributes a composite getter returns
Constituents(getter) ==
  CASE getter = "getShaping" -> {"kappa", "dupper", "dlower"}
    [] getter = "getGeometry" -> {"rmag", "zmag", "areaLCFS", "aLCFS", "RmidLCFS"}
    [] getter = "getQs" -> {"q0", "q95", "qLCFS", "rq1", "rq2", "rq3"}
    [] getter = "getFields" -> {"btaxv", "btaxp", "bpolav"}
    [] getter = "getBetas" -> {"betat", "betap", "Li"}
    [] getter = "getDiamag" -> {"diamag", "betatd", "betapd", "tauDiamag", "WDiamag"}
    [] getter = "getEnergy" -> {"WMHD", "tauMHD", "Pinj", "Wbdot", "Wpdot"}

CompositeNames ==
  {"getShaping", "getGeometry", "getQs", "getFields", "getBetas", "getDiamag",
   "getEnergy"}

\* C13: a composite getter either returns a structure with every named
\* constituent set, or raises 'must read a-file for this data'; with a
\* constituent unset it raises and returns nothing.
C13_CompositeAllOrError ==
  call.name \in CompositeNames =>
     /\ call.exc \in {"none", MustReadAFile}
     /\ call.exc = "none" =>
           /\ Len(ret) = Cardinality(Constituents(call.name))
           /\ \A i \in 1..Len(ret) : ret[i] # None
           /\ \A n \in Constituents(call.name) : self[n] # None
     /\ (\E n \in Constituents(call.name) : self[n] = None) =>
           call.exc = MustReadAFile /\ ret = <<>>

\* C13 witness: getEnergy on an object without a-file data raises
C13_Witness ==
  /\ call.name = "getEnergy" /\ call.exc = MustReadAFile /\ ret = <<>>
  /\ self.WMHD = None /\ lastRead = 0

\* the getters of one quantity each
TypedGetters ==
  {"getTimeBase", "getFluxGrid", "getRGrid", "getZGrid", "getRLCFS", "getZLCFS",
   "getFluxPres", "getQProfile", "getIpCalc", "getFluxAxis", "getFluxLCFS"}
  \cup GetterNames(PlainGetters \cup UnitGetters)

\* C14: a typed getter called twice in succession with the same arguments
\* returns equal values, also when the caller changed the array the first
\* call returned (ret is then that array with its first element negated).
C14_SecondCallReturnsTheSame ==
  [][(/\ call.name \in TypedGetters /\ call.exc = "none"
      /\ call'.name = call.name /\ call'.arg = call.arg /\ ~call'.touched) =>
       /\ call'.exc = "none"
       /\ ret' = IF call.touched THEN NegFirst(ret, call.depth) ELSE ret]_vars

\* C14 witness: the array getIpCalc returned has been changed by the caller
\* and the stored one has not
C14_Witness ==
  /\ call.name = "getIpCalc" /\ call.touched /\ call.exc = "none"
  /\ ret = NegFirst(self.IpCalc, 1) /\ ret # self.IpCalc

\* C15: getParam hands out a copy of an array-valued attribute: when the
\* caller changes the array it was given, a later getParam of that name
\* still returns what the first returned, and the typed getter of the
\* attribute and getCurrentSign return what they would have returned before.
C15_GetParamReturnsCopy ==
  [][(call.name = "getParam" /\ call.exc = "none" /\ call'.name = "mutate") =>
       /\ GetParamValue(self', call.arg) = ret
       /\ self'.IpCalc = self.IpCalc
       /\ CurrentSign(self') = CurrentSign(self)]_vars

\* C16: rz2volnorm and psinorm2volnorm raise NotImplementedError whatever
\* the caller passes, nothing included, with or without a-file data, and
\* leave every attribute as it was.
C16_VolnormNeverImplemented ==
  [][call'.name \in {"rz2volnorm", "psinorm2volnorm"} =>
       call'.exc = "NotImplementedError" /\ ret' = <<>> /\ self' = self]_vars

\* C16 witness: called without arguments on an object without a-file data
C16_Witness ==
  /\ call.name = "psinorm2volnorm" /\ call.exc = "NotImplementedError"
  /\ call.arg = [time |-> "none", return_t |-> "unset"] /\ lastRead = 0

MappingWrappers ==
  {"rz2psi", "rz2psinorm", "rz2phinorm", "rz2rho", "rz2rmid", "psinorm2rmid",
   "psinorm2phinorm"}

\* C17 as claimed: every mapping wrapper calls the routine of Equilibrium
\* with the stored time, whatever time the caller passes, and with return_t
\* not set to true, whatever options the caller passes.
C17_StoredTimeAndNoTimeAxis ==
  (call.name \in MappingWrappers /\ call.exc = "none") =>
     ret.t = self.time[1] /\ ret.return_t # "True"

\* C17 amended: every mapping wrapper that reaches the routine passes the
\* stored time; rz2phinorm, rz2rho, rz2rmid, psinorm2rmid and
\* psinorm2phinorm pass return_t false and take no return_t from the caller
\* (TypeError); rz2psi and rz2psinorm pass the caller's return_t on.
C17_StoredTimeCallerOptionsPassedOn ==
  call.name \in MappingWrappers =>
     /\ call.exc \in {"none", "TypeError"}
     /\ call.exc = "TypeError" <=>
           (call.name \notin {"rz2psi", "rz2psinorm"} /\ call.arg.return_t # "unset")
     /\ call.exc = "none" =>
           /\ ret.routine = call.name /\ ret.t = self.time[1]
           /\ ret.return_t = IF call.name \in {"rz2psi", "rz2psinorm"}
                              THEN call.arg.return_t ELSE "False"

\* C17 witness: rz2psi called with a time and return_t=True passes the
\* stored time and return_t true
C17_Witness ==
  /\ call.name = "rz2psi" /\ call.arg = [time |-> "given", return_t |-> "True"]
  /\ call.exc = "none" /\ ret.t = self.time[1] /\ ret.return_t = "True"

\* C18: when an a-file was selected and reading it fails, the constructor
\* still returns the object: the fields read from the g-file are as read,
\* every a-file field is None, the notice is printed and nothing is raised.
C18_FailedAFileReadIsNotFatal ==
  [][(pc = "post" /\ names.a # None /\ pc' # "post" /\ lastRead' = 0) =>
       /\ pc' = "ready" /\ err' = "none"
       /\ call' = Constructed(NotLoaded)
       /\ \A n \in GFieldNames : self'[n] = self[n]
       /\ self'.psiRZ # Unset /\ self'.IpCalc # Unset /\ self'.qpsi # Unset
       /\ \A n \in AFieldNames \cup NoneFields : self'[n] = None]_vars

\* C18 witness: the object of a constructor whose a-file could not be read
C18_Witness ==
  /\ pc = "ready" /\ call = Constructed(NotLoaded) /\ lastRead = 0
  /\ self.kappa = None /\ self.psiRZ # Unset

\* the a-file attributes of sf are all None (b = 0) or all those of a-file b
AllFromOneRead(sf, b) ==
  IF b = 0 THEN \A n \in AFieldNames : sf[n] = None
  ELSE \A n \in AFieldNames : sf[n] = AFileValue(b, n)

SameAFields(sf, tf) == \A n \in AFieldNames : sf[n] = tf[n]

\* C19 as claimed: the a-file fields are all unset or all set from one
\* a-file read; once populated they are not populated again; a read that
\* fails leaves every one as it was.
C19_PopulatedAtMostOnce ==
  [][/\ \E b \in 0..MaxAFiles : AllFromOneRead(self', b)
     /\ (\E n \in AFieldNames : self[n] # None) => SameAFields(self, self')
     /\ (call'.name = "readAFile" /\ call'.exc # "none") =>
          SameAFields(self, self')]_vars

\* C19 amended: the a-file fields are all unset or all set from one a-file
\* read, the last that succeeded: a read that succeeds replaces all of them
\* together, a read that fails leaves every one as it was, and no other call
\* changes them.
C19_AllFromLastSuccessfulRead ==
  [][/\ AllFromOneRead(self', lastRead')
     /\ (call'.name = "readAFile" /\ call'.exc # "none") =>
          SameAFields(self, self') /\ lastRead' = lastRead
     /\ (pc = "ready" /\ call'.name # "readAFile") => SameAFields(self, self')]_vars

\* C19 witness: a read of a missing file, after the second a-file was read,
\* has left the fields of the second a-file in place
C19_Witness ==
  /\ call.name = "readAFile" /\ call.exc = "IOError" /\ lastRead = 2
  /\ AllFromOneRead(self, 2) /\ self.kappa # None

\* C20: the constructor raises IOError when neither shot and time nor a
\* g-file name is given; ValueError when the g-file is not found, or when
\* the search by the name made from shot and time finds more than one
\* g-file or more than one a-file; and with shot, time and explicit names
\* all given it reads the files named explicitly.
C20_NamesOrErrors ==
  [][(pc = "names" /\ pc' # "names") =>
       /\ (~(args.shot /\ args.time) /\ ~args.gfile) =>
             pc' = "failed" /\ err' = "IOError"
       /\ ((args.shot /\ args.time) \/ args.gfile) =>
             /\ err' # "IOError"
             /\ args.gfound = 0 => pc' = "failed" /\ err' = "ValueError"
             /\ (~args.gfile /\ args.gfound > 1) =>
                   pc' = "failed" /\ err' = "ValueError"
             /\ (args.shot /\ args.time /\ ~args.afile /\ args.afound > 1) =>
                   pc' = "failed" /\ err' = "ValueError"
       /\ (args.shot /\ args.time /\ pc' = "header") =>
             /\ args.gfile => names'.g = "gfile"
             /\ args.afile => names'.a = <<"afile">>
       /\ (args.shot /\ args.time /\ args.gfile /\ args.afile
             /\ args.gfound >= 1 /\ args.afound >= 1) => pc' = "header"]_vars

\* C20 witness: a constructor called with neither shot and time nor a g-file
\* name has raised IOError
C20_Witness ==
  pc = "failed" /\ stage = "names" /\ err = "IOError" /\ names = NoNames

(***************************************************************************)
(* The lines of the g-file as the claims about the parser see them.        *)
(***************************************************************************)
\* the values the pattern with the literal point finds on a line
Values(line) ==
  [i \in 1..Len(FindAll(Row0(line), FALSE)) |-> FloatOf(FindAll(Row0(line), FALSE)[i])]

\* the values of lines a..b of the file, in line order
RECURSIVE ValuesOfLines(_, _, _)
ValuesOfLines(f, a, b) ==
  IF a > b THEN <<>> ELSE Values(f[a]) \o ValuesOfLines(f, a + 1, b)

\* C21 as stated: between the axis line (the third line of the file) and the
\* first profile line three lines are consumed, the calculated current being
\* the first value of the second of them.
C21_ThreeLinesBeforeFpol ==
  pc = "fpol" => pos = 4 + 3 /\ self.IpCalc = <<Values(file[5])[1]>>

\* C21: between the axis line and the first line of the poloidal-current
\* profile the parser consumes exactly two lines, in this order: one line from
\* which only the first value is kept, as the calculated plasma current, and
\* one line that is discarded.
C21_TwoLinesBeforeFpol ==
  [][/\ (pc' = "ip" /\ pc # "ip") => pc = "axis"
     /\ (pc' = "skip" /\ pc # "skip") => pc = "ip"
     /\ (pc' = "fpol" /\ pc # "fpol") => pc = "skip"
     /\ (pc = "ip" /\ pc' = "skip") =>
           /\ pos' = pos + 1
           /\ self' = [self EXCEPT !.IpCalc = <<Values(file[pos])[1]>>]
     /\ (pc = "skip" /\ pc' = "fpol") => pos' = pos + 1 /\ self' = self]_vars

\* C21 witness: the parser stands at the first profile line, two lines after
\* the axis line, the calculated current stored
C21_Witness ==
  pc = "fpol" /\ pos = 4 + 2 /\ self.IpCalc = <<Values(file[4])[1]>>

\* the steps of the constructor that read a counted section
SectionStages == {"fpol", "pres", "ffprim", "pprime", "psirz", "qpsi", "bbbs", "lim"}

\* the attribute a profile step stores
ProfileAttr(st) ==
  CASE st = "fpol" -> "fpol" [] st = "pres" -> "fluxPres" [] st = "ffprim" -> "ffprim"
    [] st = "pprime" -> "pprime" [] st = "qpsi" -> "qpsi"

\* the number of values the section read at step st is declared to hold
Declared(st, lc) ==
  CASE st = "psirz" -> lc.nw * lc.nh
    [] st = "bbbs" -> 2 * lc.nbbbs
    [] st = "lim" -> 2 * lc.limitr
    [] OTHER -> lc.nw

\* ceil(N / 5) for the section read at step st
SectionLines(st, lc) == (Declared(st, lc) + 4) \div 5

\* the values on the lines of the section that starts at line p
SectionValues(st, f, p, lc) == ValuesOfLines(f, p, p + SectionLines(st, lc) - 1)

\* what step st stored, as the list of the section's values in file order
StoredValues(st, sf, lc) ==
  CASE st = "psirz" ->
         [k \in 1..(lc.nw * lc.nh) |->
            sf.psiRZ[1][((k - 1) \div lc.nw) + 1][((k - 1) % lc.nw) + 1]]
    [] st = "bbbs" ->
         [k \in 1..(2 * lc.nbbbs) |->
            IF k % 2 = 1 THEN sf.RLCFS[(k + 1) \div 2][1] ELSE sf.ZLCFS[k \div 2][1]]
    [] st = "lim" ->
         [k \in 1..(2 * lc.limitr) |->
            IF k % 2 = 1 THEN sf.xlim[(k + 1) \div 2] ELSE sf.ylim[k \div 2]]
    [] OTHER -> [k \in 1..Len(sf[ProfileAttr(st)]) |-> sf[ProfileAttr(st)][k][1]]

\* C22 as stated: a counted section of N values consumes ceil(N/5) lines and
\* yields the first N values of those lines; values beyond the N-th on the
\* lines consumed are dropped and the parse goes on.
C22_SurplusDropped ==
  [][\A st \in SectionStages :
       (/\ pc = st /\ pc' # st
        /\ pos + SectionLines(st, loc) - 1 <= Len(file)
        /\ Len(SectionValues(st, file, pos, loc)) >= Declared(st, loc)) =>
          /\ pc' # "failed"
          /\ pos' = pos + SectionLines(st, loc)
          /\ StoredValues(st, self', loc) =
               SubSeq(SectionValues(st, file, pos, loc), 1, Declared(st, loc))]_vars

\* C22: a counted section of N values that is read consumes exactly
\* ceil(N/5) lines, and these lines carry exactly N values, which are stored
\* in line order; when the lines consumed carry more than N values the
\* constructor raises ValueError and no object is made.
C22_ExactCountOrValueError ==
  [][\A st \in SectionStages :
       (pc = st /\ pc' # st) =>
          /\ pc' # "failed" =>
                /\ pos' = pos + SectionLines(st, loc)
                /\ Len(SectionValues(st, file, pos, loc)) = Declared(st, loc)
                /\ StoredValues(st, self', loc) = SectionValues(st, file, pos, loc)
          /\ (/\ pos + SectionLines(st, loc) - 1 <= Len(file)
              /\ Len(SectionValues(st, file, pos, loc)) > Declared(st, loc)) =>
                /\ pc' = "failed" /\ err' = "ValueError"
                /\ pos' = pos + SectionLines(st, loc)]_vars

\* C22 witness: a flux map of six values, its two lines consumed, carrying
\* seven values, has ended the constructor with ValueError
C22_Witness ==
  /\ pc = "failed" /\ stage = "psirz" /\ err = "ValueError"
  /\ Declared("psirz", loc) = 6
  /\ Len(ValuesOfLines(file, pos - 2, pos - 1)) = 7

\* C23: value number k (from 0) of the flux-map section is stored at
\* psiRZ[0, k div nw, k mod nw]: the R index varies fastest and every nw
\* consecutive values are one Z row.
C23_FluxMapRowMajor ==
  pc = "qpsi" =>
    /\ Len(self.psiRZ) = 1 /\ Len(self.psiRZ[1]) = loc.nh
    /\ \A z \in 1..loc.nh : Len(self.psiRZ[1][z]) = loc.nw
    /\ \A k \in 0..(loc.nw * loc.nh - 1) :
         self.psiRZ[1][(k \div loc.nw) + 1][(k % loc.nw) + 1] =
           ValuesOfLines(file, pos - SectionLines("psirz", loc), pos - 1)[k + 1]

\* C23 witness: a flux map of more than one row and more than one column is
\* stored, its second row starting with value number nw of the section
C23_Witness ==
  /\ pc = "qpsi" /\ loc.nw > 1 /\ loc.nh > 1
  /\ self.psiRZ[1][2][1] =
       ValuesOfLines(file, pos - SectionLines("psirz", loc), pos - 1)[loc.nw + 1]
  /\ self.psiRZ[1][2][1] # self.psiRZ[1][1][2]

\* the values of the section whose last line is the line before p
ValuesBefore(st, f, p, lc) == ValuesOfLines(f, p - SectionLines(st, lc), p - 1)

\* C24: in the LCFS and limiter polygon sections the values alternate R, Z
\* per point: for every point j (from 0) the stored R coordinate is section
\* value 2j and the stored Z coordinate is section value 2j+1.
C24_PolygonsInterleaved ==
  /\ pc = "lim" =>
       /\ Len(self.RLCFS) = loc.nbbbs /\ Len(self.ZLCFS) = loc.nbbbs
       /\ \A j \in 0..(loc.nbbbs - 1) :
            /\ self.RLCFS[j + 1] = <<ValuesBefore("bbbs", file, pos, loc)[2 * j + 1]>>
            /\ self.ZLCFS[j + 1] = <<ValuesBefore("bbbs", file, pos, loc)[2 * j + 2]>>
  /\ pc = "tail" =>
       /\ Len(self.xlim) = loc.limitr /\ Len(self.ylim) = loc.limitr
       /\ \A j \in 0..(loc.limitr - 1) :
            /\ self.xlim[j + 1] = ValuesBefore("lim", file, pos, loc)[2 * j + 1]
            /\ self.ylim[j + 1] = ValuesBefore("lim", file, pos, loc)[2 * j + 2]

\* C24 witness: a limiter of two points is stored, the R of its second point
\* being the third value of the section and differing from the second
C24_Witness ==
  /\ pc = "tail" /\ loc.limitr = 2
  /\ self.xlim[2] = ValuesBefore("lim", file, pos, loc)[3]
  /\ self.xlim[2] # ValuesBefore("lim", file, pos, loc)[2]

\* the steps of the mandatory part that scan their lines for values
TokenizedStages == {"grid", "axis", "ip"} \cup SectionStages

\* the number of lines step st consumes
StageLines(st, lc) == IF st \in SectionStages THEN SectionLines(st, lc) ELSE 1

\* step st, started at line p, finds all its lines, one of them without a value
ReadsEmptyLine(st, f, p, lc) ==
  /\ p + StageLines(st, lc) - 1 <= Len(f)
  /\ \E i \in p..(p + StageLines(st, lc) - 1) : Values(f[i]) = <<>>

MandatoryStages ==
  {"header", "grid", "axis", "ip", "skip", "counts"} \cup SectionStages

\* a step of the mandatory part that needs a line the file does not have
\* ends the constructor with an exception, and a constructor that has
\* raised returns no object
EndInMandatoryFails ==
  /\ \A st \in MandatoryStages :
       (pc = st /\ pc' # st /\ pos + StageLines(st, loc) - 1 > Len(file)) =>
          pc' = "failed" /\ stage' = st /\ err' = "StopIteration"
  /\ pc = "failed" => pc' = "failed"

\* the file ended inside the optional tail: the tail caught StopIteration
EndedInTail == pc = "footer" /\ tailErr = "StopIteration"

\* C26: when the g-file ends before a mandatory section has all its values
\* construction fails with an error that reaches the caller and no object is
\* made; when it ends inside the optional tail the end of the file is
\* tolerated: the constructor goes on past the footer.
C26_OnlyTailExhaustionTolerated ==
  [][/\ EndInMandatoryFails
     /\ (EndedInTail /\ pc' # "footer") => pc' = "post"]_vars

\* the header step has run, and the file is still open
HeaderRead == pc \notin {"names", "header"} /\ stage # "names" /\ file # <<>>

\* the header step raised
HeaderFailed == pc = "failed" /\ stage = "header"

\* a time string: digits followed by ms or s
TimeStringOk(w) ==
  FirstDigitRun(w) # <<>> /\ \E u \in {<<"m", "s">>, <<"s">>} : w = FirstDigitRun(w) \o u

\* the last five words w[n-4..n] of a header hold a shot, a time string with
\* a known unit, any word, and two integers
LastFiveOk(w, n) ==
  /\ n >= 5
  /\ LastDigitRun(w[n - 4]) # <<>>
  /\ TimeStringOk(w[n - 3])
  /\ IntOk(w[n - 1]) /\ IntOk(w[n])

\* shot, time unit, nw and nh are those of the words n-4, n-3, n-1 and n
TakenFromTheEnd(w, n, sf, lc) ==
  /\ sf.shot = DigitsVal(LastDigitRun(w[n - 4]))
  /\ w[n - 3] = FirstDigitRun(w[n - 3]) \o sf.tunits
  /\ lc.nw = IntOf(w[n - 1])
  /\ lc.nh = IntOf(w[n])

\* C27: a header line with fewer than 5 whitespace-separated fields makes
\* construction fail (IndexError); with 5 or more fields the shot, the time
\* string, nw and nh are taken from the fifth-from-last, fourth-from-last,
\* second-from-last and last field, however many fields precede them.
C27_HeaderCountedFromTheEnd ==
  HeaderRead =>
    /\ Len(Split(Row0(file[1]))) < 5 => HeaderFailed /\ err = "IndexError"
    /\ LastFiveOk(Split(Row0(file[1])), Len(Split(Row0(file[1])))) =>
         /\ ~HeaderFailed
         /\ TakenFromTheEnd(Split(Row0(file[1])), Len(Split(Row0(file[1]))), self, loc)

\* C27 witness: a header of eight words has been read, nw and nh taken from
\* its last two words
C27_Witness ==
  /\ pc = "grid" /\ Len(Split(Row0(file[1]))) = 8
  /\ TakenFromTheEnd(Split(Row0(file[1])), 8, self, loc)

\* the time string of the header: its fourth-from-last word
TimeString(f) == Split(Row0(f[1]))[Len(Split(Row0(f[1]))) - 3]

\* what follows the digits T of a time string that starts with them
UnitSuffix(w) == SubSeq(w, Len(FirstDigitRun(w)) + 1, Len(w))

\* C28: the stored time is the header's time in seconds (T/1000 for T with
\* unit ms, T for T with unit s), a header time with another unit suffix
\* makes construction fail, and getTimeBase returns the stored time, a single
\* value.
C28_TimeInSeconds ==
  /\ (HeaderRead /\ Len(Split(Row0(file[1]))) >= 5) =>
       /\ UnitSuffix(TimeString(file)) = <<"m", "s">> =>
            /\ ~HeaderFailed /\ Len(self.time) = 1
            /\ self.time[1] * 1000 = DigitsVal(FirstDigitRun(TimeString(file))) * Scale
       /\ UnitSuffix(TimeString(file)) = <<"s">> =>
            /\ ~HeaderFailed
            /\ self.time = <<DigitsVal(FirstDigitRun(TimeString(file))) * Scale>>
       /\ UnitSuffix(TimeString(file)) \notin {<<"m", "s">>, <<"s">>} => HeaderFailed
  /\ (call.name = "getTimeBase" /\ ~call.touched) =>
       call.exc = "none" /\ ret = self.time /\ Len(ret) = 1

\* C28 witness: getTimeBase has returned 0.875 from an object built from a
\* header time of 875ms
C28_Witness ==
  /\ call.name = "getTimeBase" /\ ~call.touched
  /\ self.tunits = <<"m", "s">> /\ ret = <<(875 * Scale) \div 1000>>

\* the tail that starts at line p has a head line with kvtor and nmass not
\* positive, so that rhovn is the section that follows it, and all the lines
\* of rhovn are in the file
RhovnFollowsHead(f, p, lc) ==
  /\ ReadInts(f, p, <<1, 3>>).err = "none"
  /\ ReadInts(f, p, <<1, 3>>).vals[1] <= 0
  /\ ReadInts(f, p, <<1, 3>>).vals[2] <= 0
  /\ p + SectionLines("fpol", lc) <= Len(f)

\* C29: the optional tail is scanned with the rule of the mandatory sections
\* (optional '-', a digit, a literal '.', digits, 'E', a sign, digits): a
\* rhovn section on whose lines that rule does not find nw values ends the
\* tail there, with the ValueError of the reshape.
C29_OneRuleEverywhere ==
  [][(/\ pc = "tail" /\ pc' = "footer"
      /\ RhovnFollowsHead(file, pos, loc)
      /\ Len(ValuesOfLines(file, pos + 1, pos + SectionLines("fpol", loc))) # loc.nw) =>
        tailErr' = "ValueError"]_vars

\* a step that is a call of a getter or of a mapping routine on the object
GetterCall ==
  /\ pc = "ready" /\ pc' = "ready"
  /\ call'.name \notin {"", "__init__", "mutate", "readAFile"}
  /\ ~call'.touched

\* the getters that evaluate getCurrentSign
SignGetters == {"getCurrentSign", "getFluxAxis", "getFluxLCFS"}

\* C30: no getter call changes a stored field, except that the first
\* evaluation of getCurrentSign (directly or through getFluxAxis or
\* getFluxLCFS) sets the cached current sign; and readAFile changes no field
\* read from the g-file and not the cached current sign.
C30_GettersChangeNothing ==
  [][/\ GetterCall =>
          /\ \A n \in FieldNames \ {"currentSign"} : self'[n] = self[n]
          /\ self'.currentSign # self.currentSign =>
               /\ self.currentSign = None
               /\ call'.name \in SignGetters
               /\ self'.currentSign \in {<<1>>, <<0 - 1>>}
     /\ (pc = "ready" /\ call'.name = "readAFile") =>
          \A n \in GFieldNames \cup {"currentSign"} : self'[n] = self[n]]_vars

\* C30 witness: readAFile has succeeded on an object whose current sign was
\* cached, and the sign is still cached
C30_Witness ==
  /\ call.name = "readAFile" /\ call.exc = "none"
  /\ self.kappa # None /\ self.currentSign # None

=============================================================================
